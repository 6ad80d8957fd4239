---------------------- MODULE ContainerInventoryProofs ----------------------
(***************************************************************************)
(* Theorems about ContainerInventory, for any number of containers and of  *)
(* calls.                                                                  *)
(***************************************************************************)
EXTENDS ContainerInventory, FiniteSetTheorems, TLAPS

(***************************************************************************)
(* Types.                                                                  *)
(***************************************************************************)
Scans == Rescans \cup Installs
ScanLabels == {"listing", "listed", "unlisted", "adding", "reading", "closing",
               "checking"}
Labels == {"new", "idle", "installing", "acting", "listing", "listed", "unlisted",
           "adding", "reading", "closing", "checking", "done"}
Memory == [name : Names \cup {Setup}, born : Calls \cup {Setup},
           view : [Names -> States], todo : SUBSET Names,
           seen : SUBSET (Names \X (Calls \cup {Setup})), size : Nat]
Typed(inv) == DOMAIN inv \subseteq Names /\ \A n \in DOMAIN inv : inv[n] \in Status

\* Where each kind of task can be; what is installed is a container.
Placed ==
    /\ \A t \in Rescans : pc[t] \in {"new", "done"} \cup ScanLabels
    /\ \A t \in Installs : pc[t] \in {"new", "installing", "done"} \cup ScanLabels
    /\ \A t \in Actions : pc[t] \in {"new", "acting", "reading", "closing", "done"}
    /\ pc[Poll] \in {"idle", "checking", "reading", "closing"}
    /\ \A t \in Installs : pc[t] = "installing" => mem[t].name \in Names

\* A call has ended exactly when it has an outcome.
Ended == \A t \in Calls : outcome[t] = "none" <=> pc[t] # "done"

LEMMA TaskKinds ==
    /\ Calls \subseteq Tasks /\ Poll \in Tasks /\ Setup \notin Tasks \cup Names
    /\ Rescans \cup Installs \cup Actions = Calls
    /\ Poll \notin Rescans \cup Installs \cup Actions
    /\ Rescans \cap Installs = {} /\ (Rescans \cup Installs) \cap Actions = {}
BY CallAssumption DEF Tasks, Calls, Actions

LEMMA FreshType == Fresh \in Memory
BY DEF Fresh, Memory, Blank, States

LEMMA KnownIsFinite == ASSUME TypeOK PROVE Cardinality(Known) \in Nat
BY NameAssumption, FS_Subset, FS_CardinalityType DEF TypeOK

\* What the answer of a registry changes of the inventory.
LEMMA CheckedKeeps ==
    ASSUME TypeOK, NEW t \in Tasks, NEW ok \in BOOLEAN
    PROVE  /\ DOMAIN Checked(t, ok) = Known
           /\ \A n \in Known :
                /\ Checked(t, ok)[n] \in Status
                /\ Checked(t, ok)[n].born = inventory[n].born
                /\ Checked(t, ok)[n].tracked = inventory[n].tracked
                /\ Checked(t, ok)[n].installing = inventory[n].installing
                /\ Checked(t, ok)[n].operation = inventory[n].operation
<1>1. CASE Holds(t, mem[t].name)
  <2>1. mem[t].name \in Known /\ inventory[mem[t].name] \in Status
    BY <1>1 DEF Holds, TypeOK
  <2>2. Checked(t, ok) = Put(inventory, mem[t].name, [Mine(t) EXCEPT !.checkable = ok])
    BY <1>1 DEF Checked, OnHeld
  <2>3. DOMAIN Checked(t, ok) = Known
    BY <2>1, <2>2 DEF Put, Known
  <2>4. \A n \in Known : Checked(t, ok)[n] =
            IF n = mem[t].name THEN [inventory[n] EXCEPT !.checkable = ok] ELSE inventory[n]
    BY <2>1, <2>2 DEF Put, Mine, Known
  <2>5. \A n \in Known : inventory[n] \in Status
    BY DEF TypeOK
  <2> QED BY <2>3, <2>4, <2>5 DEF Status
<1>2. CASE ~Holds(t, mem[t].name)
  BY <1>2 DEF Checked, OnHeld, TypeOK, Known
<1> QED BY <1>1, <1>2

\* What publishing a scan leaves of an inventory.
LEMMA TrackedKeeps ==
    ASSUME NEW inv, Typed(inv)
    PROVE  /\ DOMAIN Tracked(inv) = DOMAIN inv
           /\ \A n \in DOMAIN inv :
                /\ Tracked(inv)[n] \in Status
                /\ Tracked(inv)[n].born = inv[n].born
                /\ Tracked(inv)[n].installing = inv[n].installing
                /\ Tracked(inv)[n].operation = inv[n].operation
BY DEF Tracked, Typed, Status

LEMMA PublishType ==
    ASSUME TypeOK, NEW t \in Calls, NEW inv, Typed(inv), Publish(t, inv)
    PROVE  /\ Typed(inventory') /\ scanning' = FALSE /\ lastOk' = TRUE
           /\ entities' \in [control : SUBSET Names, update : SUBSET Names]
           /\ pc' = [pc EXCEPT ![t] = "done"]
           /\ mem' = [mem EXCEPT ![t] = Fresh]
           /\ outcome' = [outcome EXCEPT ![t] = "ok"]
<1>1. inventory' = Tracked(inv)
  BY DEF Publish
<1>2. Typed(inventory')
  BY <1>1, TrackedKeeps DEF Typed
<1>3. entities' \in [control : SUBSET Names, update : SUBSET Names]
  BY TrackedKeeps DEF Publish, Sync, Typed
<1> QED BY <1>2, <1>3 DEF Publish, End, Goto

\* What a task remembers stays of its type, whatever is put in.
LEMMA MemoryType ==
    ASSUME TypeOK, NEW t \in Tasks
    PROVE  /\ mem[t] \in Memory
           /\ \A r \in Memory : [mem EXCEPT ![t] = r] \in [Tasks -> Memory]
           /\ \A n \in Known :
                /\ n \in Names /\ inventory[n] \in Status
                /\ inventory[n].born \in Calls \cup {Setup}
           /\ Objects \subseteq Names \X (Calls \cup {Setup})
BY DEF TypeOK, Memory, Status, Objects

LEMMA FirstCheckType ==
    ASSUME TypeOK, NEW t \in Tasks, CheckFirst(t)
    PROVE  /\ mem' \in [Tasks -> Memory]
           /\ \E n \in Known : mem' = [mem EXCEPT ![t] =
                 [Fresh EXCEPT !.name = n, !.born = inventory[n].born,
                     !.seen = {<<n, inventory[n].born>>}, !.size = Cardinality(Known)]]
<1>1. PICK n \in Known : mem' = [mem EXCEPT ![t] =
                 [Fresh EXCEPT !.name = n, !.born = inventory[n].born,
                     !.seen = {<<n, inventory[n].born>>}, !.size = Cardinality(Known)]]
  BY DEF CheckFirst
<1>2. n \in Names /\ inventory[n].born \in Calls \cup {Setup}
  BY MemoryType
<1>3. {<<n, inventory[n].born>>} \in SUBSET (Names \X (Calls \cup {Setup}))
  BY <1>2
<1>4. [Fresh EXCEPT !.name = n, !.born = inventory[n].born,
          !.seen = {<<n, inventory[n].born>>}, !.size = Cardinality(Known)] \in Memory
  BY <1>2, <1>3, FreshType, KnownIsFinite DEF Memory
<1> QED BY <1>1, <1>4, MemoryType

LEMMA NextCheckType ==
    ASSUME TypeOK, NEW t \in Tasks, CheckNext(t)
    PROVE  /\ mem' \in [Tasks -> Memory]
           /\ \E n \in Known :
                /\ mem'[t].name = n /\ mem'[t].born = inventory[n].born
                /\ mem'[t].view = mem[t].view /\ mem'[t].todo = mem[t].todo
                /\ \A u \in Tasks \ {t} : mem'[u] = mem[u]
           /\ \E ok \in BOOLEAN : inventory' = Checked(t, ok)
<1>1. PICK next \in Ahead(t), ok \in BOOLEAN :
        /\ inventory' = Checked(t, ok)
        /\ mem' = [mem EXCEPT ![t].name = next[1], ![t].born = next[2],
                              ![t].seen = @ \cup {next}]
  BY DEF CheckNext
<1>2. PICK n \in Known : next = <<n, inventory[n].born>>
  BY DEF Ahead, Objects
<1>3. n \in Names /\ inventory[n].born \in Calls \cup {Setup} /\ mem[t] \in Memory
  BY MemoryType
<1> DEFINE seen == mem[t].seen \cup {next}
           r == [mem[t] EXCEPT !.name = n, !.born = inventory[n].born, !.seen = seen]
<1>a. seen \in SUBSET (Names \X (Calls \cup {Setup}))
  BY <1>2, <1>3 DEF Memory
<1>5. mem' = [mem EXCEPT ![t] = r]
  BY <1>1, <1>2 DEF TypeOK
<1> HIDE DEF seen
<1>4. r \in Memory
  BY <1>a, <1>3 DEF Memory
<1>6. /\ r.name = n /\ r.born = inventory[n].born
      /\ r.view = mem[t].view /\ r.todo = mem[t].todo
  BY <1>3 DEF Memory
<1> HIDE DEF r
<1>7. mem'[t] = r /\ \A u \in Tasks \ {t} : mem'[u] = mem[u]
  BY <1>5 DEF TypeOK
<1> QED BY <1>1, <1>4, <1>5, <1>6, <1>7, MemoryType

LEMMA InitialTypes == Init => TypeOK /\ Placed /\ Ended
<1> SUFFICES ASSUME Init PROVE TypeOK /\ Placed /\ Ended
  OBVIOUS
<1>1. PICK track \in SUBSET Names :
        /\ inventory = [n \in {m \in Names : \/ server[m] = "running"
                                             \/ server[m] # "removed" /\ m \in MeantToRun} |->
               [NewStatus(Setup) EXCEPT
                    !.checkable = n \in track, !.tracked = n \in track]]
        /\ entities = [control |-> Known, update |-> Known \cap track]
  BY DEF Init
<1>2. Known \subseteq Names /\ \A n \in Known : inventory[n] \in Status
  <2>1. \A b, c \in BOOLEAN :
          [NewStatus(Setup) EXCEPT !.checkable = b, !.tracked = c] \in Status
    BY DEF NewStatus, Status
  <2>2. Known \subseteq Names
    BY <1>1 DEF Known
  <2>3. \A n \in Known : inventory[n] =
            [NewStatus(Setup) EXCEPT !.checkable = n \in track, !.tracked = n \in track]
    BY <1>1 DEF Known
  <2>4. \A n : (n \in track) \in BOOLEAN
    OBVIOUS
  <2> QED BY <2>1, <2>2, <2>3, <2>4
<1>3. entities \in [control : SUBSET Names, update : SUBSET Names]
  BY <1>1, <1>2
<1>4. mem \in [Tasks -> Memory]
  BY FreshType DEF Init
<1>5. pc \in [Tasks -> Labels]
  BY DEF Init, Labels
<1>6. /\ server \in [Names -> States] /\ changes \in 0 .. MaxChanges
      /\ scanning \in BOOLEAN /\ lastOk \in BOOLEAN
      /\ outcome \in [Calls -> {"none", "ok", "error"}] /\ gone \subseteq Names
  <2>1. changes = 0 /\ gone = {n \in Names : server[n] = "removed"}
    BY DEF Init
  <2>2. changes \in 0 .. MaxChanges /\ gone \subseteq Names
    BY <2>1, ChangeAssumption
  <2> QED BY <2>2 DEF Init
<1>7. TypeOK
  BY <1>2, <1>3, <1>4, <1>5, <1>6 DEF TypeOK, Memory, Labels
<1>8. Placed /\ Ended
  BY CallAssumption DEF Init, Placed, Ended, Tasks, Calls, Actions
<1> QED BY <1>7, <1>8

LEMMA TypeStep == TypeOK /\ Placed /\ [Next]_vars => TypeOK'
<1> SUFFICES ASSUME TypeOK, Placed, [Next]_vars PROVE TypeOK'
  OBVIOUS
<1> DEFINE Outcomes == {"none", "ok", "error"}
           TwoSets == [control : SUBSET Names, update : SUBSET Names]
\* The type invariant in terms of what the steps change.
<1>1. ASSUME server' \in [Names -> States], changes' \in 0 .. MaxChanges,
             Typed(inventory'), scanning' \in BOOLEAN, lastOk' \in BOOLEAN,
             entities' \in TwoSets, pc' \in [Tasks -> Labels],
             mem' \in [Tasks -> Memory], outcome' \in [Calls -> Outcomes],
             gone' \subseteq Names
      PROVE  TypeOK'
  BY <1>1 DEF TypeOK, Typed, Known, Labels, Memory
<1>2. /\ server \in [Names -> States] /\ changes \in 0 .. MaxChanges
      /\ Typed(inventory) /\ scanning \in BOOLEAN /\ lastOk \in BOOLEAN
      /\ entities \in TwoSets /\ pc \in [Tasks -> Labels]
      /\ mem \in [Tasks -> Memory] /\ outcome \in [Calls -> Outcomes]
      /\ gone \subseteq Names
  BY DEF TypeOK, Typed, Known, Labels, Memory
<1> HIDE DEF Outcomes, TwoSets
\* What the helpers of the actions do.
<1>3. ASSUME NEW t \in Tasks, NEW label \in Labels, Goto(t, label)
      PROVE  pc' \in [Tasks -> Labels]
  BY <1>2, <1>3 DEF Goto
<1>4. ASSUME NEW t \in Calls, NEW result \in {"ok", "error"}, End(t, result)
      PROVE  /\ pc' \in [Tasks -> Labels] /\ mem' \in [Tasks -> Memory]
             /\ outcome' \in [Calls -> Outcomes]
  <2>1. pc' = [pc EXCEPT ![t] = "done"] /\ mem' = [mem EXCEPT ![t] = Fresh]
        /\ outcome' = [outcome EXCEPT ![t] = result]
    BY <1>4 DEF End, Goto
  <2> QED BY <1>2, <2>1, FreshType DEF Labels, Outcomes, Tasks
<1>5. ASSUME NEW n \in Known, NEW status \in Status
      PROVE  Typed(Put(inventory, n, status))
  BY <1>2 DEF Put, Typed, Known
<1>6. ASSUME NEW t \in Tasks
      PROVE  /\ Typed(OnHeld(t, [Mine(t) EXCEPT !.installing = FALSE]))
             /\ Typed(OnHeld(t, [Mine(t) EXCEPT !.operation = "none"]))
  <2>1. CASE Holds(t, mem[t].name)
    <3>1. mem[t].name \in Known /\ Mine(t) \in Status
      BY <2>1, MemoryType DEF Holds, Mine
    <3>2. /\ [Mine(t) EXCEPT !.installing = FALSE] \in Status
          /\ [Mine(t) EXCEPT !.operation = "none"] \in Status
      BY <3>1 DEF Status
    <3> QED BY <2>1, <3>1, <3>2, <1>5 DEF OnHeld
  <2>2. CASE ~Holds(t, mem[t].name)
    BY <2>2, <1>2 DEF OnHeld
  <2> QED BY <2>1, <2>2
<1>7. ASSUME NEW t \in Tasks, NEW ok \in BOOLEAN
      PROVE  Typed(Checked(t, ok))
  BY <1>2, CheckedKeeps DEF Typed, Known
<1>8. ASSUME NEW t \in Calls, NEW inv, Typed(inv), Publish(t, inv),
             UNCHANGED <<server, changes, gone>>
      PROVE  TypeOK'
  <2>1. /\ Typed(inventory') /\ scanning' = FALSE /\ lastOk' = TRUE /\ entities' \in TwoSets
    BY <1>8, PublishType DEF TwoSets
  <2>2. End(t, "ok")
    BY <1>8 DEF Publish
  <2> QED BY <1>1, <1>2, <1>4, <1>8, <2>1, <2>2
<1>9. ASSUME NEW n \in Known
      PROVE  /\ [inventory[n] EXCEPT !.installing = TRUE] \in Status
             /\ [inventory[n] EXCEPT !.operation = "start"] \in Status
             /\ [inventory[n] EXCEPT !.operation = "stop"] \in Status
             /\ [inventory[n] EXCEPT !.stateKnown = TRUE] \in Status
             /\ [inventory[n] EXCEPT !.stateKnown = FALSE] \in Status
  <2>1. inventory[n] \in Status
    BY DEF TypeOK
  <2> QED BY <2>1 DEF Status
<1>10. ASSUME NEW t \in Tasks, NEW n \in Known,
              mem' = [mem EXCEPT ![t].name = n, ![t].born = inventory[n].born]
       PROVE  mem' \in [Tasks -> Memory]
  <2>1. mem[t] \in Memory /\ n \in Names /\ inventory[n].born \in Calls \cup {Setup}
    BY MemoryType
  <2>2. [mem[t] EXCEPT !.name = n, !.born = inventory[n].born] \in Memory
    BY <2>1 DEF Memory
  <2>3. mem' = [mem EXCEPT ![t] = [mem[t] EXCEPT !.name = n, !.born = inventory[n].born]]
    BY <1>2, <1>10
  <2> QED BY <1>2, <2>2, <2>3
<1>11. ASSUME NEW t \in Calls, BeginRescan(t) PROVE TypeOK'
  <2>1. Goto(t, "listing") /\ t \in Tasks
    BY <1>11 DEF BeginRescan, Tasks
  <2> QED BY <1>11, <1>1, <1>2, <1>3, <2>1 DEF BeginRescan, history, Labels
<1>12. ASSUME NEW t \in Calls, BeginInstall(t) PROVE TypeOK'
  <2>1. PICK n \in Known \cap Installable :
          /\ inventory' = Put(inventory, n, [inventory[n] EXCEPT !.installing = TRUE])
          /\ mem' = [mem EXCEPT ![t].name = n, ![t].born = inventory[n].born]
    BY <1>12 DEF BeginInstall
  <2>2. Typed(inventory')
    BY <1>5, <1>9, <2>1
  <2>3. Goto(t, "installing") /\ t \in Tasks
    BY <1>12 DEF BeginInstall, Tasks
  <2>4. mem' \in [Tasks -> Memory]
    BY <1>10, <2>1, <2>3
  <2> QED BY <1>12, <1>1, <1>2, <1>3, <2>2, <2>3, <2>4 DEF BeginInstall, history, Labels
<1>13. ASSUME NEW t \in Calls, BeginAction(t) PROVE TypeOK'
  <2>1. PICK n \in Known \cap entities.control :
          /\ inventory' = Put(inventory, n, [inventory[n] EXCEPT
                            !.operation = IF t \in Starts THEN "start" ELSE "stop"])
          /\ mem' = [mem EXCEPT ![t].name = n, ![t].born = inventory[n].born]
    BY <1>13 DEF BeginAction
  <2>2. Typed(inventory')
    BY <1>5, <1>9, <2>1
  <2>3. Goto(t, "acting") /\ t \in Tasks
    BY <1>13 DEF BeginAction, Tasks
  <2>4. mem' \in [Tasks -> Memory]
    BY <1>10, <2>1, <2>3
  <2> QED BY <1>13, <1>1, <1>2, <1>3, <2>2, <2>3, <2>4 DEF BeginAction, history, Labels
<1>14. ASSUME NEW t \in Calls, Recreate(t) PROVE TypeOK'
  <2>1. mem[t].name \in Names
    BY <1>14 DEF Recreate, Placed, Calls, Actions, ScanLabels
  <2> QED BY <1>14, <1>1, <1>2, <2>1 DEF Recreate, shared, States
<1>15. ASSUME NEW t \in Calls, EndInstall(t) PROVE TypeOK'
  <2>1. Goto(t, "listing") /\ t \in Tasks
    BY <1>15 DEF EndInstall, Tasks
  <2>2. mem' \in [Tasks -> Memory]
    BY <1>15, <2>1, MemoryType, FreshType DEF EndInstall
  <2>3. server' \in [Names -> States]
    BY <1>15, <1>2 DEF EndInstall, States
  <2> QED BY <1>15, <1>1, <1>2, <1>3, <1>6, <2>1, <2>2, <2>3 DEF EndInstall, history, Labels
<1>16. ASSUME NEW t \in Calls, FailInstall(t) PROVE TypeOK'
  BY <1>16, <1>1, <1>2, <1>4, <1>6 DEF FailInstall, Tasks
<1>17. ASSUME NEW t \in Calls, Act(t) PROVE TypeOK'
  <2>1. server' \in [Names -> States]
    BY <1>17, <1>2 DEF Act, States
  <2>2. Goto(t, "reading") /\ t \in Tasks
    BY <1>17 DEF Act, Tasks
  <2> QED BY <1>17, <1>1, <1>2, <1>3, <2>1, <2>2 DEF Act, shared, history, Labels
<1>18. ASSUME NEW t \in Calls, FailAction(t) \/ EndAction(t) PROVE TypeOK'
  BY <1>18, <1>1, <1>2, <1>4, <1>6 DEF FailAction, EndAction, EndOperation, Tasks
<1>19. ASSUME NEW t \in Calls, ListContainers(t) PROVE TypeOK'
  <2>1. pc' \in [Tasks -> Labels]
    BY <1>19, <1>3 DEF ListContainers, Tasks, Labels
  <2>2. mem' \in [Tasks -> Memory]
    <3>1. [mem[t] EXCEPT !.view = server] \in Memory
      BY <1>2, MemoryType DEF Memory, Tasks
    <3>2. CASE mem' = [mem EXCEPT ![t].view = server]
      <4>1. mem' = [mem EXCEPT ![t] = [mem[t] EXCEPT !.view = server]]
        BY <3>2, <1>2
      <4> QED BY <3>1, <4>1, MemoryType DEF Tasks
    <3> QED BY <1>19, <1>2, <3>2 DEF ListContainers
  <2> QED BY <1>19, <1>1, <1>2, <2>1, <2>2 DEF ListContainers, shared, history
<1>20. ASSUME NEW t \in Calls, ApplyList(t) PROVE TypeOK'
  <2> DEFINE found == IF pc[t] = "listed" THEN Discovered(mem[t].view) ELSE {}
  <2>1. found \subseteq Names
    BY DEF Discovered
  <2>2. /\ inventory' = [n \in Known \cap found |-> inventory[n]]
        /\ mem' = [mem EXCEPT ![t] = [Fresh EXCEPT !.todo = found]]
        /\ Goto(t, IF found = {} THEN "closing" ELSE "adding")
        /\ UNCHANGED <<server, changes, scanning, lastOk, entities, history>>
    BY <1>20 DEF ApplyList
  <2> HIDE DEF found
  <2>3. [Fresh EXCEPT !.todo = found] \in Memory
    BY <2>1, FreshType DEF Memory
  <2>4. mem' \in [Tasks -> Memory]
    BY <2>2, <2>3, MemoryType DEF Tasks
  <2>5. Typed(inventory')
    BY <1>2, <2>1, <2>2 DEF Typed, Known
  <2>6. pc' \in [Tasks -> Labels]
    BY <1>3, <2>2 DEF Labels, Tasks
  <2> QED BY <1>1, <1>2, <2>2, <2>4, <2>5, <2>6 DEF history
<1>21. ASSUME NEW t \in Calls, AddContainer(t) PROVE TypeOK'
  <2>1. PICK n \in mem[t].todo :
         /\ inventory' = Put(inventory, n,
              IF n \in Known THEN [inventory[n] EXCEPT !.stateKnown = TRUE]
              ELSE NewStatus(t))
         /\ mem' = [mem EXCEPT ![t].todo = @ \ {n}]
         /\ Goto(t, IF mem[t].todo = {n} THEN "reading" ELSE "adding")
    BY <1>21 DEF AddContainer
  <2>2. mem[t] \in Memory /\ n \in Names
    BY MemoryType DEF Tasks, Memory
  <2>3. NewStatus(t) \in Status
    BY DEF NewStatus, Status
  <2>4. Typed(inventory')
    BY <1>2, <1>9, <2>1, <2>2, <2>3 DEF Put, Typed, Known
  <2>5. [mem[t] EXCEPT !.todo = @ \ {n}] \in Memory
    BY <2>2 DEF Memory
  <2>6. mem' = [mem EXCEPT ![t] = [mem[t] EXCEPT !.todo = @ \ {n}]]
    BY <2>1, <1>2
  <2>7. mem' \in [Tasks -> Memory]
    BY <2>5, <2>6, MemoryType DEF Tasks
  <2>8. pc' \in [Tasks -> Labels]
    BY <1>3, <2>1 DEF Labels, Tasks
  <2> QED BY <1>1, <1>2, <1>21, <2>4, <2>7, <2>8 DEF AddContainer, history
<1>22. ASSUME NEW t \in Tasks, ReadStates(t) PROVE TypeOK'
  <2>1. Typed(inventory')
    BY <1>2, <1>9, <1>22 DEF ReadStates, Typed, Known
  <2> QED BY <1>1, <1>2, <1>3, <1>22, <2>1 DEF ReadStates, history, Labels
<1>23. ASSUME NEW t \in Calls, FailScan(t) PROVE TypeOK'
  BY <1>1, <1>2, <1>4, <1>23 DEF FailScan, ResetScan
<1>24. ASSUME NEW t \in Calls, EndEmptyScan(t) PROVE TypeOK'
  BY <1>2, <1>8, <1>24 DEF EndEmptyScan
<1>25. ASSUME NEW t \in Calls, StartChecks(t) PROVE TypeOK'
  <2>1. CheckFirst(t) /\ Goto(t, "checking") /\ t \in Tasks
    BY <1>25 DEF StartChecks, Tasks
  <2>2. mem' \in [Tasks -> Memory]
    BY <2>1, FirstCheckType
  <2> QED BY <1>1, <1>2, <1>3, <1>25, <2>1, <2>2 DEF StartChecks, shared, history, Labels
<1>26. ASSUME NEW t \in Tasks, CheckNext(t) PROVE TypeOK'
  <2>1. mem' \in [Tasks -> Memory] /\ \E ok \in BOOLEAN : inventory' = Checked(t, ok)
    BY <1>26, NextCheckType
  <2> QED BY <1>1, <1>2, <1>7, <1>26, <2>1 DEF CheckNext, history
<1>27. ASSUME NEW t \in Calls, EndChecks(t) PROVE TypeOK'
  BY <1>7, <1>8, <1>27 DEF EndChecks, Tasks
<1>28. ASSUME NEW t \in Calls, Break(t) PROVE TypeOK'
  BY <1>1, <1>2, <1>4, <1>7, <1>28 DEF Break, ResetScan, Tasks
<1>29. CASE StartPoll
  <2>1. Poll \in Tasks
    BY DEF Tasks
  <2>2. mem' \in [Tasks -> Memory] /\ pc' \in [Tasks -> Labels] /\ lastOk' \in BOOLEAN
    BY <1>2, <1>3, <1>29, <2>1, FirstCheckType DEF StartPoll, Labels
  <2> QED BY <1>1, <1>2, <1>29, <2>2 DEF StartPoll, history
<1>30. CASE PollChecked
  <2>1. Poll \in Tasks
    BY DEF Tasks
  <2>2. mem' \in [Tasks -> Memory]
    BY <1>30, <2>1, MemoryType, FreshType DEF PollChecked
  <2>3. pc' \in [Tasks -> Labels] /\ lastOk' \in BOOLEAN
    BY <1>2, <1>3, <1>30, <2>1 DEF PollChecked, Labels
  <2> QED BY <1>1, <1>2, <1>7, <1>30, <2>1, <2>2, <2>3 DEF PollChecked, history
<1>31. CASE EndPoll
  <2>1. Typed(inventory')
    BY <1>2, <1>9, <1>31 DEF EndPoll, Typed, Known
  <2>2. pc' \in [Tasks -> Labels]
    BY <1>3, <1>31 DEF EndPoll, Labels, Tasks
  <2> QED BY <1>1, <1>2, <1>31, <2>1, <2>2 DEF EndPoll, history
<1>32. CASE ServerChanges
  <2>1. changes' \in 0 .. MaxChanges
    BY <1>2, <1>32, ChangeAssumption DEF ServerChanges
  <2>2. server' \in [Names -> States] /\ gone' \subseteq Names
    BY <1>2, <1>32 DEF ServerChanges
  <2> QED BY <1>1, <1>2, <1>32, <2>1, <2>2 DEF ServerChanges, shared
<1>33. CASE UNCHANGED vars
  BY <1>1, <1>2, <1>33 DEF vars, shared, history
<1>34. Poll \in Tasks /\ Calls \subseteq Tasks
  BY DEF Tasks
<1> QED BY <1>11, <1>12, <1>13, <1>14, <1>15, <1>16, <1>17, <1>18, <1>19, <1>20,
           <1>21, <1>22, <1>23, <1>24, <1>25, <1>26, <1>27, <1>28, <1>29, <1>30,
           <1>31, <1>32, <1>33, <1>34
        DEF Next, Begin, Step, PollStep

\* A task that is done stays where it is; one that is not moves within the
\* places of its kind, and what it remembers is its own.
LEMMA PlacedStep == TypeOK /\ Placed /\ Ended /\ [Next]_vars => Placed' /\ Ended'
<1> SUFFICES ASSUME TypeOK, Placed, Ended, [Next]_vars PROVE Placed' /\ Ended'
  OBVIOUS
<1> DEFINE At(t, label) ==
             /\ t \in Rescans => label \in {"new", "done"} \cup ScanLabels
             /\ t \in Installs => label \in {"new", "installing", "done"} \cup ScanLabels
             /\ t \in Actions => label \in {"new", "acting", "reading", "closing", "done"}
             /\ t = Poll => label \in {"idle", "checking", "reading", "closing"}
           Others(t) == \A u \in Tasks \ {t} : mem'[u] = mem[u]
<1>0. /\ pc \in [Tasks -> Labels] /\ mem \in [Tasks -> Memory]
      /\ outcome \in [Calls -> {"none", "ok", "error"}]
  BY DEF TypeOK, Labels, Memory
<1>1. ASSUME NEW t \in Tasks, NEW label, Goto(t, label), At(t, label), Others(t),
             label = "installing" => mem'[t].name \in Names
      PROVE  Placed'
  <2>1. \A u \in Tasks : pc'[u] = IF u = t THEN label ELSE pc[u]
    BY <1>0, <1>1 DEF Goto
  <2>2. Rescans \subseteq Tasks /\ Installs \subseteq Tasks /\ Actions \subseteq Tasks /\ Poll \in Tasks
    BY TaskKinds
  <2> QED BY <1>1, <2>1, <2>2 DEF Placed
<1>2. ASSUME NEW t \in Tasks, NEW label, Goto(t, label), label # "done", pc[t] # "done",
             UNCHANGED outcome
      PROVE  Ended'
  <2>1. \A u \in Calls : pc'[u] = IF u = t THEN label ELSE pc[u]
    BY <1>0, <1>2 DEF Goto, Tasks
  <2> QED BY <1>2, <2>1 DEF Ended
<1>3. ASSUME NEW t \in Calls, NEW result \in {"ok", "error"}, End(t, result)
      PROVE  Placed' /\ Ended'
  <2>1. t # Poll /\ t \in Tasks
    BY CallAssumption DEF Tasks
  <2>2. At(t, "done") /\ Others(t) /\ Goto(t, "done")
    BY <1>0, <1>3, <2>1 DEF End
  <2>3. Placed'
    BY <1>1, <2>1, <2>2
  <2>4. \A u \in Calls : /\ pc'[u] = IF u = t THEN "done" ELSE pc[u]
                         /\ outcome'[u] = IF u = t THEN result ELSE outcome[u]
    BY <1>0, <1>3 DEF End, Goto, Tasks
  <2> QED BY <2>3, <2>4 DEF Ended
<1>4. ASSUME UNCHANGED <<pc, outcome, mem>> PROVE Placed' /\ Ended'
  BY <1>4 DEF Placed, Ended
<1>5. ASSUME NEW t \in Calls, BeginRescan(t) PROVE Placed' /\ Ended'
  <2>1. t \in Tasks /\ At(t, "listing") /\ Others(t) /\ Goto(t, "listing")
    BY <1>5, CallAssumption DEF BeginRescan, ScanLabels, Calls, Tasks
  <2> QED BY <1>1, <1>2, <1>5, <2>1 DEF BeginRescan, history
<1>6. ASSUME NEW t \in Calls, BeginInstall(t) PROVE Placed' /\ Ended'
  <2>1. t \in Tasks /\ At(t, "installing") /\ Goto(t, "installing")
    BY <1>6, CallAssumption DEF BeginInstall, Calls, Tasks
  <2>2. PICK n \in Known : mem' = [mem EXCEPT ![t].name = n, ![t].born = inventory[n].born]
    BY <1>6 DEF BeginInstall
  <2>5. mem[t] \in Memory
    BY <1>0, <2>1
  <2>6. mem' = [mem EXCEPT ![t] = [mem[t] EXCEPT !.name = n, !.born = inventory[n].born]]
    BY <1>0, <2>1, <2>2
  <2>7. [mem[t] EXCEPT !.name = n, !.born = inventory[n].born].name = n
    BY <2>5 DEF Memory
  <2>3. mem'[t].name = n /\ Others(t)
    BY <1>0, <2>1, <2>6, <2>7
  <2>4. n \in Names
    BY DEF TypeOK
  <2> QED BY <1>1, <1>2, <1>6, <2>1, <2>3, <2>4 DEF BeginInstall, history
<1>7. ASSUME NEW t \in Calls, BeginAction(t) PROVE Placed' /\ Ended'
  <2>1. t \in Tasks /\ At(t, "acting") /\ Goto(t, "acting")
    BY <1>7, CallAssumption DEF BeginAction, Calls, Tasks, Actions
  <2>2. Others(t)
    BY <1>0, <1>7 DEF BeginAction
  <2> QED BY <1>1, <1>2, <1>7, <2>1, <2>2 DEF BeginAction, history
<1>8. ASSUME NEW t \in Calls, Recreate(t) PROVE Placed' /\ Ended'
  BY <1>4, <1>8 DEF Recreate
<1>9. ASSUME NEW t \in Calls, EndInstall(t) PROVE Placed' /\ Ended'
  <2>1. t \in Tasks /\ At(t, "listing") /\ Others(t) /\ Goto(t, "listing")
    BY <1>0, <1>9, CallAssumption DEF EndInstall, ScanLabels, Calls, Tasks, Placed, Actions
  <2> QED BY <1>1, <1>2, <1>9, <2>1 DEF EndInstall, history
<1>10. ASSUME NEW t \in Calls, Act(t) PROVE Placed' /\ Ended'
  <2>1. t \in Tasks /\ At(t, "reading") /\ Others(t) /\ Goto(t, "reading")
    BY <1>10, CallAssumption DEF Act, ScanLabels, Calls, Tasks
  <2> QED BY <1>1, <1>2, <1>10, <2>1 DEF Act, history
<1>11. ASSUME NEW t \in Calls,
              \/ FailInstall(t) \/ FailAction(t) \/ EndAction(t) \/ FailScan(t) \/ Break(t)
       PROVE  Placed' /\ Ended'
  BY <1>3, <1>11 DEF FailInstall, FailAction, EndAction, FailScan, Break
<1>12. ASSUME NEW t \in Calls, EndEmptyScan(t) \/ EndChecks(t) PROVE Placed' /\ Ended'
  BY <1>3, <1>12 DEF EndEmptyScan, EndChecks, Publish
<1>13. ASSUME NEW t \in Calls, ListContainers(t) PROVE Placed' /\ Ended'
  <2>1. PICK label \in {"listed", "unlisted"} : Goto(t, label)
    BY <1>13 DEF ListContainers
  <2>2. t \in Tasks /\ At(t, label) /\ Others(t)
    BY <1>0, <1>13, CallAssumption
       DEF ListContainers, ScanLabels, Calls, Tasks, Placed, Actions
  <2> QED BY <1>1, <1>2, <1>13, <2>1, <2>2 DEF ListContainers, history
<1>14. ASSUME NEW t \in Calls, ApplyList(t) PROVE Placed' /\ Ended'
  <2>1. PICK label \in {"closing", "adding"} : Goto(t, label)
    BY <1>14 DEF ApplyList
  <2>2. PICK r : mem' = [mem EXCEPT ![t] = r]
    BY <1>14 DEF ApplyList
  <2>3. t \in Tasks /\ At(t, label) /\ Others(t)
    BY <1>0, <1>14, <2>2, CallAssumption
       DEF ApplyList, ScanLabels, Calls, Tasks, Placed, Actions
  <2> QED BY <1>1, <1>2, <1>14, <2>1, <2>3 DEF ApplyList, history
<1>15. ASSUME NEW t \in Calls, AddContainer(t) PROVE Placed' /\ Ended'
  <2>1. PICK label \in {"reading", "adding"} : Goto(t, label)
    BY <1>15 DEF AddContainer
  <2>2. t \in Tasks /\ At(t, label) /\ Others(t)
    BY <1>0, <1>15, CallAssumption
       DEF AddContainer, ScanLabels, Calls, Tasks, Placed, Actions
  <2> QED BY <1>1, <1>2, <1>15, <2>1, <2>2 DEF AddContainer, history
<1>16. ASSUME NEW t \in Tasks, ReadStates(t) PROVE Placed' /\ Ended'
  <2>1. At(t, "closing") /\ Others(t)
    BY <1>16 DEF ReadStates, ScanLabels
  <2> QED BY <1>1, <1>2, <1>16, <2>1 DEF ReadStates, history
<1>17. ASSUME NEW t \in Calls, StartChecks(t) PROVE Placed' /\ Ended'
  <2>1. t \in Tasks /\ CheckFirst(t) /\ Goto(t, "checking")
    BY <1>17 DEF StartChecks, Tasks
  <2>2. At(t, "checking")
    BY <1>17, TaskKinds DEF StartChecks, ScanLabels
  <2>3. Others(t)
    <3>1. PICK m : mem' = [mem EXCEPT ![t] = m]
      BY <2>1, FirstCheckType
    <3> QED BY <1>0, <3>1
  <2>4. pc[t] # "done" /\ UNCHANGED outcome
    BY <1>17 DEF StartChecks, history
  <2> QED BY <1>1, <1>2, <2>1, <2>2, <2>3, <2>4
<1>18. ASSUME NEW t \in Tasks, CheckNext(t) PROVE Placed' /\ Ended'
  <2>1. pc[t] = "checking" /\ UNCHANGED <<pc, outcome>> /\ Others(t)
    BY <1>18, NextCheckType DEF CheckNext, history
  <2>2. t \notin Installs \/ pc[t] # "installing"
    BY <2>1
  <2>3. \A u \in Installs : u \in Tasks
    BY DEF Tasks, Calls
  <2>4. \A u \in Installs : pc[u] = "installing" => mem'[u].name = mem[u].name
    BY <2>1, <2>2, <2>3
  <2> QED BY <2>1, <2>4 DEF Placed, Ended
<1>19. CASE StartPoll
  <2>1. CASE UNCHANGED <<pc, mem>>
    BY <1>4, <1>19, <2>1 DEF StartPoll, history
  <2>2. CASE CheckFirst(Poll) /\ Goto(Poll, "checking")
    <3>1. Poll \in Tasks /\ Poll \notin Rescans \cup Installs \cup Actions
      BY TaskKinds
    <3>2. Others(Poll)
      <4>1. PICK m : mem' = [mem EXCEPT ![Poll] = m]
        BY <2>2, <3>1, FirstCheckType
      <4> QED BY <1>0, <4>1
    <3>3. At(Poll, "checking")
      BY <3>1
    <3>4. pc[Poll] # "done" /\ UNCHANGED outcome
      BY <1>19 DEF StartPoll, history
    <3> QED BY <1>1, <1>2, <2>2, <3>1, <3>2, <3>3, <3>4
  <2> QED BY <1>19, <2>1, <2>2 DEF StartPoll
<1>20. CASE PollChecked \/ EndPoll
  <2>1. PICK label \in {"reading", "idle"} : Goto(Poll, label)
    BY <1>20 DEF PollChecked, EndPoll
  <2>2. Poll \in Tasks /\ Poll \notin Rescans \cup Installs \cup Actions
    BY TaskKinds
  <2>3. Others(Poll)
    BY <1>0, <1>20 DEF PollChecked, EndPoll
  <2>4. At(Poll, label)
    BY <2>2
  <2>5. pc[Poll] # "done" /\ UNCHANGED outcome
    BY <1>20 DEF PollChecked, EndPoll, history
  <2> QED BY <1>1, <1>2, <2>1, <2>2, <2>3, <2>4, <2>5
<1>21. CASE ServerChanges \/ UNCHANGED vars
  BY <1>4, <1>21 DEF ServerChanges, vars, shared, history
<1> QED BY <1>5, <1>6, <1>7, <1>8, <1>9, <1>10, <1>11, <1>12, <1>13, <1>14, <1>15,
           <1>16, <1>17, <1>18, <1>19, <1>20, <1>21
        DEF Next, Begin, Step, PollStep, Tasks

\* The variables keep their types.
THEOREM InventoryTyping == Spec => []TypeOK
<1> QED BY InitialTypes, TypeStep, PlacedStep, PTL DEF Spec

\* The same, with where the tasks are, for the proofs below.
LEMMA TypedAndPlaced == Spec => [](TypeOK /\ Placed /\ Ended)
<1> QED BY InitialTypes, TypeStep, PlacedStep, PTL DEF Spec

(***************************************************************************)
(* The flags.                                                              *)
(***************************************************************************)

\* A task gives a name a status object of its own at most once: Unborn says
\* that t may still do so, and then nothing holds the one it would create.
Unborn(t, n) ==
    \/ pc[t] \in {"new", "installing", "listing", "listed", "unlisted"}
    \/ pc[t] = "adding" /\ n \in mem[t].todo
BornOnce ==
    \A t \in Scans, n \in Names :
        Unborn(t, n) =>
            /\ n \in Known => inventory[n].born # t
            /\ \A u \in Tasks : ~(mem[u].name = n /\ mem[u].born = t)

\* The parts of FlagsOwned.
ScanOwned == scanning => Scanning # {}
Active(a) == pc[a] \notin {"new", "done"}
FlagsOf(n) ==
    /\ inventory[n].installing =>
          \E t \in Installs : pc[t] = "installing" /\ OnObject(t, n)
    /\ inventory[n].operation # "none" <=>
          \E t \in Actions : Active(t) /\ OnObject(t, n)
    /\ \A t, u \in Actions :
          Active(t) /\ OnObject(t, n) /\ Active(u) /\ OnObject(u, n) => t = u

\* What a task holds after a step: the object it held, one of the inventory, or
\* none.
Held(u) ==
    \/ mem'[u].name = mem[u].name /\ mem'[u].born = mem[u].born
    \/ mem'[u].name = Setup
    \/ mem'[u].name \in Known /\ mem'[u].born = inventory[mem'[u].name].born

LEMMA BornFrame ==
    ASSUME BornOnce,
           \A n \in Known' : n \in Known /\ inventory'[n].born = inventory[n].born,
           \A u \in Tasks : Held(u),
           \A t \in Scans, n \in Names : Unborn(t, n)' => Unborn(t, n)
    PROVE  BornOnce'
<1> SUFFICES ASSUME NEW t \in Scans, NEW n \in Names, Unborn(t, n)'
             PROVE  /\ n \in Known' => inventory'[n].born # t
                    /\ \A u \in Tasks : ~(mem'[u].name = n /\ mem'[u].born = t)
  BY DEF BornOnce
<1>1. /\ n \in Known => inventory[n].born # t
      /\ \A u \in Tasks : ~(mem[u].name = n /\ mem[u].born = t)
  BY DEF BornOnce
<1>2. n # Setup
  BY TaskKinds
<1> QED BY <1>1, <1>2 DEF Held

\* Steps that leave the flags, their objects and the tasks they are about alone.
SameObject(n) ==
    /\ n \in Known
    /\ inventory'[n].born = inventory[n].born
    /\ inventory'[n].installing = inventory[n].installing
    /\ inventory'[n].operation = inventory[n].operation
SameHold(u) == mem'[u].name = mem[u].name /\ mem'[u].born = mem[u].born
Quiet ==
    /\ \A n \in Known' : SameObject(n)
    /\ \A u \in Tasks : Held(u)
    /\ \A t \in Scans, n \in Names : Unborn(t, n)' => Unborn(t, n)
    /\ \A a \in Actions : SameHold(a) /\ (Active(a)' <=> Active(a))
    /\ \A t \in Installs : pc[t] = "installing" => pc'[t] = "installing" /\ SameHold(t)

FlagsInv == BornOnce /\ ScanOwned /\ \A n \in Known : FlagsOf(n)

LEMMA QuietKeeps ==
    ASSUME FlagsInv, Quiet
    PROVE  BornOnce' /\ \A n \in Known' : FlagsOf(n)'
<1>1. BornOnce'
  BY BornFrame DEF FlagsInv, Quiet, SameObject
<1>2. ASSUME NEW n \in Known' PROVE FlagsOf(n)'
  <2>1. FlagsOf(n) /\ SameObject(n)
    BY <1>2 DEF FlagsInv, Quiet, SameObject
  <2>2. \A a \in Actions : /\ OnObject(a, n)' <=> OnObject(a, n)
                           /\ Active(a)' <=> Active(a)
    BY <2>1 DEF Quiet, SameHold, SameObject, OnObject
  <2>3. inventory[n].installing =>
            \E t \in Installs : pc'[t] = "installing" /\ OnObject(t, n)'
    BY <2>1 DEF Quiet, SameHold, SameObject, OnObject, FlagsOf
  <2> QED BY <2>1, <2>2, <2>3 DEF FlagsOf, SameObject
<1> QED BY <1>1, <1>2

\* A step of one task is quiet if this is so for that task.
LEMMA QuietStep ==
    ASSUME NEW t \in Tasks,
           \A u \in Tasks \ {t} : pc'[u] = pc[u] /\ mem'[u] = mem[u],
           \A n \in Known' : SameObject(n),
           Held(t),
           \A n \in Names : t \in Scans /\ Unborn(t, n)' => Unborn(t, n),
           t \in Actions => SameHold(t) /\ (Active(t)' <=> Active(t)),
           t \in Installs => pc[t] # "installing"
    PROVE  Quiet
<1>1. ASSUME NEW u \in Tasks \ {t}
      PROVE  /\ Held(u) /\ SameHold(u) /\ (Active(u)' <=> Active(u))
             /\ \A n \in Names : Unborn(u, n)' <=> Unborn(u, n)
  BY <1>1 DEF Held, SameHold, Active, Unborn
<1>2. \A u \in Tasks : Held(u)
  BY <1>1
<1>3. ASSUME NEW u \in Scans, NEW n \in Names, Unborn(u, n)' PROVE Unborn(u, n)
  BY <1>1, <1>3, TaskKinds DEF Scans
<1>4. \A a \in Actions : SameHold(a) /\ (Active(a)' <=> Active(a))
  BY <1>1, TaskKinds
<1>5. \A i \in Installs : pc[i] = "installing" => pc'[i] = "installing" /\ SameHold(i)
  BY <1>1, TaskKinds
<1> QED BY <1>2, <1>3, <1>4, <1>5 DEF Quiet

\* What the tasks that act on an object do before and after, the scans and the
\* poll do to the inventory but its flags, and what others do.
LEMMA QuietActions ==
    ASSUME TypeOK, Placed,
           \/ \E t \in Calls :
                \/ BeginRescan(t) \/ Recreate(t) \/ Act(t) \/ ListContainers(t)
                \/ ApplyList(t) \/ FailScan(t) \/ EndEmptyScan(t) \/ StartChecks(t)
                \/ EndChecks(t) \/ Break(t)
           \/ \E t \in Tasks : ReadStates(t) \/ CheckNext(t)
           \/ StartPoll \/ PollChecked \/ EndPoll \/ ServerChanges \/ UNCHANGED vars
    PROVE  Quiet
<1>0. /\ pc \in [Tasks -> Labels] /\ mem \in [Tasks -> Memory]
      /\ \A n \in Known : inventory[n] \in Status
  BY DEF TypeOK, Labels, Memory
<1> DEFINE Others(t) == \A u \in Tasks \ {t} : pc'[u] = pc[u] /\ mem'[u] = mem[u]
           Older(t) == \A n \in Names : Unborn(t, n)' => Unborn(t, n)
           Objs == \A n \in Known' : SameObject(n)
<1>1. ASSUME UNCHANGED inventory PROVE Objs
  BY <1>1 DEF SameObject, Known
<1>2. ASSUME UNCHANGED <<inventory, pc, mem>> PROVE Quiet
  BY <1>1, <1>2 DEF Quiet, Held, SameHold, Active, Unborn
\* Steps of a scan or of the poll.
<1>3. ASSUME NEW t \in Scans \cup {Poll}, Others(t), Objs, Held(t), t \in Scans => Older(t),
             pc[t] # "installing"
      PROVE  Quiet
  <2>1. t \in Tasks /\ t \notin Actions
    BY TaskKinds DEF Scans
  <2> QED BY <1>3, <2>1, QuietStep
<1>4. ASSUME NEW t \in Scans, NEW result, End(t, result), Objs, pc[t] # "installing"
      PROVE  Quiet
  <2>1. t \in Tasks
    BY TaskKinds DEF Scans
  <2>2. /\ Others(t) /\ mem'[t] = Fresh /\ pc'[t] = "done"
    BY <1>0, <1>4, <2>1 DEF End, Goto
  <2>3. Held(t) /\ Older(t)
    BY <2>2 DEF Held, Unborn, Fresh
  <2> QED BY <1>3, <1>4, <2>2, <2>3
<1>5. ASSUME NEW t \in Tasks, NEW ok \in BOOLEAN, inventory' = Checked(t, ok) PROVE Objs
  BY <1>5, CheckedKeeps DEF SameObject, Known
<1>6. ASSUME NEW t \in Scans, NEW inv, Typed(inv), Publish(t, inv), pc[t] # "installing",
             DOMAIN inv = Known,
             \A n \in Known : /\ inv[n].born = inventory[n].born
                              /\ inv[n].installing = inventory[n].installing
                              /\ inv[n].operation = inventory[n].operation
      PROVE  Quiet
  <2>1. inventory' = Tracked(inv) /\ End(t, "ok")
    BY <1>6 DEF Publish
  <2>2. Objs
    BY <1>6, <2>1, TrackedKeeps DEF SameObject, Known
  <2> QED BY <1>4, <1>6, <2>1, <2>2
<1>7. ASSUME NEW t \in Calls, BeginRescan(t) PROVE Quiet
  <2>1. t \in Scans /\ t \in Tasks
    BY <1>7, TaskKinds DEF BeginRescan, Scans
  <2>2. Others(t) /\ Held(t) /\ Older(t) /\ Objs /\ pc[t] # "installing"
    BY <1>0, <1>1, <1>7, <2>1 DEF BeginRescan, Goto, Held, Unborn
  <2> QED BY <1>3, <2>1, <2>2
<1>8. ASSUME NEW t \in Calls, Recreate(t) PROVE Quiet
  BY <1>2, <1>8 DEF Recreate, shared
<1>9. ASSUME NEW t \in Calls, Act(t) PROVE Quiet
  <2>1. pc[t] = "acting" /\ Goto(t, "reading") /\ UNCHANGED <<inventory, mem>>
    BY <1>9 DEF Act, shared
  <2>2. t \notin Installs /\ t \in Tasks
    BY <2>1, TaskKinds DEF Placed, ScanLabels
  <2>3. Others(t) /\ pc'[t] = "reading"
    BY <1>0, <2>1, <2>2 DEF Goto
  <2>4. Held(t) /\ SameHold(t) /\ (Active(t)' <=> Active(t)) /\ Older(t)
    BY <2>1, <2>3 DEF Held, SameHold, Active, Unborn
  <2> QED BY <1>1, <2>1, <2>2, <2>3, <2>4, QuietStep
<1>10. ASSUME NEW t \in Calls, ListContainers(t) PROVE Quiet
  <2>1. t \in Scans /\ t \in Tasks
    BY <1>10, TaskKinds DEF ListContainers, Scans, Placed
  <2>2. Others(t) /\ SameHold(t)
    <3>1. CASE mem' = [mem EXCEPT ![t].view = server]
      <4>1. mem[t] \in Memory
        BY <1>0, <2>1
      <4>2. mem' = [mem EXCEPT ![t] = [mem[t] EXCEPT !.view = server]]
        BY <1>0, <2>1, <3>1
      <4>3. /\ [mem[t] EXCEPT !.view = server].name = mem[t].name
            /\ [mem[t] EXCEPT !.view = server].born = mem[t].born
        BY <4>1 DEF Memory
      <4> QED BY <1>0, <1>10, <2>1, <4>2, <4>3 DEF ListContainers, Goto, SameHold
    <3> QED BY <1>0, <1>10, <2>1, <3>1 DEF ListContainers, Goto, SameHold
  <2>3. pc[t] = "listing" /\ UNCHANGED inventory
    BY <1>10 DEF ListContainers, shared
  <2>4. Held(t) /\ Older(t)
    BY <2>2, <2>3 DEF Held, SameHold, Unborn
  <2> QED BY <1>1, <1>3, <2>1, <2>2, <2>3, <2>4
<1>11. ASSUME NEW t \in Calls, ApplyList(t) PROVE Quiet
  <2>1. t \in Scans /\ t \in Tasks
    BY <1>11, TaskKinds DEF ApplyList, Scans, Placed
  <2>2. PICK found : /\ inventory' = [n \in Known \cap found |-> inventory[n]]
                     /\ mem' = [mem EXCEPT ![t] = [Fresh EXCEPT !.todo = found]]
    BY <1>11 DEF ApplyList
  <2>3. Objs
    BY <2>2 DEF SameObject, Known
  <2>4. mem'[t].name = Setup /\ Others(t)
    BY <1>0, <1>11, <2>1, <2>2 DEF ApplyList, Goto, Fresh
  <2>5. Held(t) /\ Older(t) /\ pc[t] # "installing"
    BY <1>11, <2>4 DEF ApplyList, Held, Unborn
  <2> QED BY <1>3, <2>1, <2>3, <2>4, <2>5
<1>12. ASSUME NEW t \in Calls, FailScan(t) PROVE Quiet
  BY <1>1, <1>4, <1>12 DEF FailScan, Scans
<1>13. ASSUME NEW t \in Calls, EndEmptyScan(t) PROVE Quiet
  <2>1. Typed(inventory) /\ DOMAIN inventory = Known
    BY DEF Typed, TypeOK, Known
  <2> QED BY <1>6, <1>13, <2>1 DEF EndEmptyScan, Scans
<1>14. ASSUME NEW t \in Calls, StartChecks(t) PROVE Quiet
  <2>1. t \in Scans /\ t \in Tasks
    BY <1>14, TaskKinds DEF StartChecks, Scans
  <2>2. PICK n \in Known : mem' = [mem EXCEPT ![t] =
                 [Fresh EXCEPT !.name = n, !.born = inventory[n].born,
                     !.seen = {<<n, inventory[n].born>>}, !.size = Cardinality(Known)]]
    BY <1>14, <2>1, FirstCheckType DEF StartChecks
  <2>3. mem'[t].name = n /\ mem'[t].born = inventory[n].born /\ Others(t)
    BY <1>0, <1>14, <2>1, <2>2 DEF StartChecks, Goto, Fresh
  <2>4. pc'[t] = "checking" /\ pc[t] = "closing" /\ UNCHANGED inventory
    BY <1>0, <1>14, <2>1 DEF StartChecks, Goto, shared
  <2>5. Held(t) /\ Older(t)
    BY <2>3, <2>4 DEF Held, Unborn
  <2> QED BY <1>1, <1>3, <2>1, <2>3, <2>4, <2>5
<1>15. ASSUME NEW t \in Calls, EndChecks(t) \/ Break(t) PROVE Quiet
  <2>1. t \in Scans /\ t \in Tasks /\ pc[t] = "checking"
    BY <1>15, TaskKinds DEF EndChecks, Break, Scans, Placed
  <2>2. CASE EndChecks(t)
    <3>1. PICK ok \in BOOLEAN : Publish(t, Checked(t, ok))
      BY <2>2 DEF EndChecks
    <3>2. Typed(Checked(t, ok))
      BY <2>1, CheckedKeeps DEF Typed, TypeOK
    <3> QED BY <1>6, <2>1, <3>1, <3>2, CheckedKeeps
  <2>3. CASE Break(t)
    <3>1. PICK ok \in BOOLEAN : inventory' = Checked(t, ok)
      BY <2>3 DEF Break
    <3> QED BY <1>4, <1>5, <2>1, <2>3, <3>1 DEF Break
  <2> QED BY <1>15, <2>2, <2>3
<1>16. ASSUME NEW t \in Tasks, ReadStates(t) PROVE Quiet
  <2>1. /\ pc[t] = "reading" /\ Goto(t, "closing") /\ UNCHANGED mem
        /\ inventory' = [n \in Known |-> [inventory[n] EXCEPT !.stateKnown = TRUE]]
    BY <1>16 DEF ReadStates
  <2>2. Objs
    BY <1>0, <2>1 DEF SameObject, Known, Status
  <2>3. Others(t) /\ pc'[t] = "closing"
    BY <1>0, <2>1 DEF Goto
  <2>4. Held(t) /\ SameHold(t) /\ (Active(t)' <=> Active(t)) /\ Older(t)
    BY <2>1, <2>3 DEF Held, SameHold, Active, Unborn
  <2> QED BY <2>1, <2>2, <2>3, <2>4, QuietStep
<1>17. ASSUME NEW t \in Tasks, CheckNext(t) PROVE Quiet
  <2>1. pc[t] = "checking" /\ UNCHANGED pc /\ t \in Scans \cup {Poll}
    BY <1>17, TaskKinds DEF CheckNext, Placed, Scans, Tasks
  <2>2. Others(t) /\ Held(t) /\ Objs
    BY <1>5, <1>17, <2>1, NextCheckType DEF Held
  <2>3. Older(t)
    BY <2>1 DEF Unborn
  <2> QED BY <1>3, <2>1, <2>2, <2>3
<1>18. CASE StartPoll
  <2>1. CASE UNCHANGED <<pc, mem>>
    BY <1>2, <1>18, <2>1 DEF StartPoll
  <2>2. CASE CheckFirst(Poll) /\ Goto(Poll, "checking")
    <3>1. PICK n \in Known : mem' = [mem EXCEPT ![Poll] =
                 [Fresh EXCEPT !.name = n, !.born = inventory[n].born,
                     !.seen = {<<n, inventory[n].born>>}, !.size = Cardinality(Known)]]
      BY <2>2, FirstCheckType, TaskKinds
    <3>2. mem'[Poll].name = n /\ mem'[Poll].born = inventory[n].born /\ Others(Poll)
      BY <1>0, <2>2, <3>1, TaskKinds DEF Goto, Fresh
    <3>3. Held(Poll) /\ Poll \notin Scans /\ UNCHANGED inventory /\ pc[Poll] # "installing"
      BY <1>18, <3>2, TaskKinds DEF Held, Scans, StartPoll
    <3> QED BY <1>1, <1>3, <3>2, <3>3
  <2> QED BY <1>18, <2>1, <2>2 DEF StartPoll
<1>19. CASE PollChecked
  <2>1. Others(Poll) /\ mem'[Poll] = Fresh
    BY <1>0, <1>19, TaskKinds DEF PollChecked, Goto
  <2>2. Held(Poll) /\ Poll \notin Scans /\ pc[Poll] # "installing"
    BY <1>19, <2>1, TaskKinds DEF Held, Scans, PollChecked, Fresh
  <2>3. Objs
    BY <1>5, <1>19, TaskKinds DEF PollChecked
  <2> QED BY <1>3, <2>1, <2>2, <2>3
<1>20. CASE EndPoll
  <2>1. Others(Poll) /\ mem'[Poll] = mem[Poll]
    BY <1>0, <1>20, TaskKinds DEF EndPoll, Goto
  <2>2. Held(Poll) /\ Poll \notin Scans /\ pc[Poll] # "installing"
    BY <1>20, <2>1, TaskKinds DEF Held, Scans, EndPoll
  <2>3. Objs
    <3>1. CASE inventory' = [n \in Known |-> [inventory[n] EXCEPT !.stateKnown = FALSE]]
      BY <1>0, <3>1 DEF SameObject, Known, Status
    <3> QED BY <1>1, <1>20, <3>1 DEF EndPoll
  <2> QED BY <1>3, <2>1, <2>2, <2>3
<1>21. CASE ServerChanges \/ UNCHANGED vars
  BY <1>2, <1>21 DEF ServerChanges, vars, shared
<1> QED BY <1>7, <1>8, <1>9, <1>10, <1>11, <1>12, <1>13, <1>14, <1>15, <1>16, <1>17,
           <1>18, <1>19, <1>20, <1>21

\* The steps that raise and lower the flags of a status object.
LEMMA FlagActions ==
    ASSUME TypeOK, Placed, FlagsInv, NEW t \in Calls,
           \/ BeginInstall(t) \/ EndInstall(t) \/ FailInstall(t)
           \/ BeginAction(t) \/ FailAction(t) \/ EndAction(t)
    PROVE  BornOnce' /\ \A n \in Known' : FlagsOf(n)'
<1>0. /\ pc \in [Tasks -> Labels] /\ mem \in [Tasks -> Memory] /\ t \in Tasks
      /\ \A n \in Known : inventory[n] \in Status
  BY TaskKinds DEF TypeOK, Labels, Memory
<1> DEFINE Others == \A u \in Tasks \ {t} : pc'[u] = pc[u] /\ mem'[u] = mem[u]
\* A step of t that changes no more than one status object, n.
<1>1. ASSUME Others, NEW n, \A m \in Known' \ {n} : SameObject(m),
             n \in Known' => FlagsOf(n)' /\ n \in Known /\ inventory'[n].born = inventory[n].born,
             Held(t), \A m \in Names : t \in Scans /\ Unborn(t, m)' => Unborn(t, m),
             \A m \in Known \ {n} : Active(t) \/ pc[t] = "installing" => ~OnObject(t, m),
             \A m \in Known \ {n} : Active(t)' => ~OnObject(t, m)'
      PROVE  BornOnce' /\ \A m \in Known' : FlagsOf(m)'
  <2>1. \A u \in Tasks : Held(u)
    BY <1>1 DEF Held
  <2>2. ASSUME NEW u \in Scans, NEW m \in Names, Unborn(u, m)' PROVE Unborn(u, m)
    <3>1. u \in Tasks
      BY TaskKinds DEF Scans
    <3> QED BY <1>1, <2>2, <3>1 DEF Unborn
  <2>3. BornOnce'
    BY <1>1, <2>1, <2>2, BornFrame DEF FlagsInv, SameObject
  <2>4. ASSUME NEW m \in Known' \ {n} PROVE FlagsOf(m)'
    <3>1. SameObject(m) /\ m \in Known /\ FlagsOf(m)
      BY <1>1, <2>4 DEF FlagsInv, SameObject
    <3>2. \A a \in Actions : (Active(a) /\ OnObject(a, m))' <=> Active(a) /\ OnObject(a, m)
      <4>1. \A a \in Actions \ {t} : (Active(a) /\ OnObject(a, m))' <=> Active(a) /\ OnObject(a, m)
        BY <1>1, <3>1, TaskKinds DEF Active, OnObject, SameObject
      <4>2. ~(Active(t) /\ OnObject(t, m))' /\ ~(Active(t) /\ OnObject(t, m))
        BY <1>1, <2>4, <3>1
      <4> QED BY <4>1, <4>2
    <3>3. \A i \in Installs : pc[i] = "installing" /\ OnObject(i, m)
                              => (pc[i] = "installing" /\ OnObject(i, m))'
      <4>1. \A i \in Installs \ {t} : i \in Tasks
        BY TaskKinds
      <4> QED BY <1>1, <2>4, <3>1, <4>1 DEF OnObject, SameObject
    <3> QED BY <3>1, <3>2, <3>3 DEF FlagsOf, SameObject
  <2> QED BY <1>1, <2>3, <2>4
<1>2. ASSUME NEW n \in Known, NEW status, inventory' = Put(inventory, n, status)
      PROVE  /\ Known' = Known /\ inventory'[n] = status
             /\ \A m \in Known' \ {n} : SameObject(m)
  BY <1>2 DEF Put, Known, SameObject
<1>3. ASSUME BeginInstall(t) PROVE BornOnce' /\ \A n \in Known' : FlagsOf(n)'
  <2>1. PICK n \in Known :
          /\ inventory' = Put(inventory, n, [inventory[n] EXCEPT !.installing = TRUE])
          /\ mem' = [mem EXCEPT ![t].name = n, ![t].born = inventory[n].born]
    BY <1>3 DEF BeginInstall
  <2>2. t \in Installs /\ pc[t] = "new" /\ pc' = [pc EXCEPT ![t] = "installing"]
    BY <1>3 DEF BeginInstall, Goto
  <2>3. Others /\ pc'[t] = "installing" /\ mem'[t].name = n /\ mem'[t].born = inventory[n].born
    BY <1>0, <2>1, <2>2 DEF Memory
  <2>4. /\ Known' = Known /\ \A m \in Known' \ {n} : SameObject(m)
        /\ inventory'[n].born = inventory[n].born /\ inventory'[n].installing = TRUE
        /\ inventory'[n].operation = inventory[n].operation
    <3>1. inventory'[n] = [inventory[n] EXCEPT !.installing = TRUE]
      BY <1>2, <2>1
    <3> QED BY <1>0, <1>2, <2>1, <3>1 DEF Status
  <2>5. FlagsOf(n)'
    <3>1. FlagsOf(n) /\ OnObject(t, n)'
      BY <2>3, <2>4 DEF FlagsInv, OnObject
    <3>2. \A a \in Actions : a \in Tasks \ {t}
      BY <2>2, TaskKinds
    <3>3. \A a \in Actions : (Active(a) /\ OnObject(a, n))' <=> Active(a) /\ OnObject(a, n)
      BY <2>3, <2>4, <3>2 DEF Active, OnObject
    <3>4. inventory'[n].operation # "none" <=> inventory[n].operation # "none"
      BY <2>4
    <3> QED BY <2>2, <2>3, <3>1, <3>3, <3>4 DEF FlagsOf
  <2>6. Held(t) /\ \A m \in Names : Unborn(t, m)' => Unborn(t, m)
    BY <2>1, <2>2, <2>3 DEF Held, Unborn
  <2>7. \A m \in Known \ {n} : ~OnObject(t, m)'
    BY <2>3 DEF OnObject
  <2> QED BY <1>1, <2>1, <2>2, <2>3, <2>4, <2>5, <2>6, <2>7 DEF Active
<1>4. ASSUME BeginAction(t) PROVE BornOnce' /\ \A n \in Known' : FlagsOf(n)'
  <2>1. PICK n \in Known :
          /\ Usable(t, inventory[n])
          /\ inventory' = Put(inventory, n, [inventory[n] EXCEPT
                            !.operation = IF t \in Starts THEN "start" ELSE "stop"])
          /\ mem' = [mem EXCEPT ![t].name = n, ![t].born = inventory[n].born]
    BY <1>4 DEF BeginAction
  <2>2. t \in Actions /\ pc[t] = "new" /\ pc' = [pc EXCEPT ![t] = "acting"]
    BY <1>4 DEF BeginAction, Goto
  <2>3. Others /\ pc'[t] = "acting" /\ mem'[t].name = n /\ mem'[t].born = inventory[n].born
    BY <1>0, <2>1, <2>2 DEF Memory
  <2>4. /\ Known' = Known /\ \A m \in Known' \ {n} : SameObject(m)
        /\ inventory'[n].born = inventory[n].born
        /\ inventory'[n].installing = inventory[n].installing
        /\ inventory'[n].operation # "none"
    <3>1. inventory'[n] = [inventory[n] EXCEPT
                            !.operation = IF t \in Starts THEN "start" ELSE "stop"]
      BY <1>2, <2>1
    <3> QED BY <1>0, <1>2, <2>1, <3>1 DEF Status
  <2>5. FlagsOf(n)'
    <3>1. FlagsOf(n) /\ OnObject(t, n)' /\ Active(t)' /\ inventory[n].operation = "none"
      BY <2>1, <2>3, <2>4 DEF FlagsInv, OnObject, Active, Usable
    <3>2. \A a \in Actions : ~(Active(a) /\ OnObject(a, n))
      BY <3>1 DEF FlagsOf
    <3>3. \A a \in Actions : (Active(a) /\ OnObject(a, n))' <=> a = t
      <4>1. \A a \in Actions \ {t} : a \in Tasks \ {t}
        BY TaskKinds
      <4> QED BY <2>3, <2>4, <3>1, <3>2, <4>1 DEF Active, OnObject
    <3>4. inventory[n].installing => \E i \in Installs : (pc[i] = "installing" /\ OnObject(i, n))'
      <4>1. \A i \in Installs : i \in Tasks \ {t}
        BY <2>2, TaskKinds
      <4> QED BY <2>3, <2>4, <3>1, <4>1 DEF FlagsOf, OnObject
    <3> QED BY <2>2, <2>4, <3>3, <3>4 DEF FlagsOf
  <2>6. Held(t) /\ \A m \in Names : Unborn(t, m)' => Unborn(t, m)
    BY <2>1, <2>2, <2>3 DEF Held, Unborn
  <2>7. \A m \in Known \ {n} : ~OnObject(t, m)'
    BY <2>3 DEF OnObject
  <2> QED BY <1>1, <2>1, <2>2, <2>3, <2>4, <2>5, <2>6, <2>7 DEF Active
\* The end of what t does to the status object it holds, and t with another label.
<1>5. ASSUME NEW status, inventory' = OnHeld(t, status), Others, mem'[t] = Fresh,
             \/ t \in Installs /\ pc[t] = "installing" /\ pc'[t] \in {"listing", "done"}
             \/ t \in Actions /\ Active(t) /\ pc'[t] = "done",
             Holds(t, mem[t].name) =>
                 /\ status.born = Mine(t).born
                 /\ status.installing = (IF t \in Installs THEN FALSE ELSE Mine(t).installing)
                 /\ status.operation = (IF t \in Actions THEN "none" ELSE Mine(t).operation)
      PROVE  BornOnce' /\ \A n \in Known' : FlagsOf(n)'
  <2>0. PICK n : n = mem[t].name
    OBVIOUS
  <2>1. Held(t) /\ \A m \in Names : t \in Scans /\ Unborn(t, m)' => Unborn(t, m)
    BY <1>5, TaskKinds DEF Held, Unborn, Fresh, Scans, Actions
  <2>2. \A m \in Known \ {n} : ~OnObject(t, m)
    BY <2>0 DEF OnObject
  <2>3. \A m \in Names : ~OnObject(t, m)'
    BY <1>5, TaskKinds DEF OnObject, Fresh
  <2>4. Known \subseteq Names
    BY DEF TypeOK
  <2>5. CASE Holds(t, n)
    <3>1. n \in Known /\ inventory[n].born = mem[t].born /\ inventory' = Put(inventory, n, status)
      BY <1>5, <2>0, <2>5 DEF Holds, OnHeld
    <3>2. /\ Known' = Known /\ \A m \in Known' \ {n} : SameObject(m)
          /\ inventory'[n].born = inventory[n].born
          /\ inventory'[n].installing = (IF t \in Installs THEN FALSE ELSE inventory[n].installing)
          /\ inventory'[n].operation = (IF t \in Actions THEN "none" ELSE inventory[n].operation)
      BY <1>2, <1>5, <2>0, <2>5, <3>1 DEF Mine
    <3>3. FlagsOf(n) /\ OnObject(t, n) /\ ~OnObject(t, n)'
      BY <2>0, <2>3, <2>4, <3>1 DEF FlagsInv, OnObject
    <3>4. \A u \in Tasks \ {t} : /\ OnObject(u, n)' <=> OnObject(u, n)
                                 /\ Active(u)' <=> Active(u)
      BY <1>5, <3>2 DEF OnObject, Active
    <3>5. FlagsOf(n)'
      <4>1. CASE t \in Installs
        <5>1. t \notin Actions /\ \A a \in Actions : a \in Tasks \ {t}
          BY <4>1, TaskKinds
        <5>2. /\ inventory'[n].installing = FALSE
              /\ inventory'[n].operation = inventory[n].operation
          BY <3>2, <4>1, <5>1
        <5> QED BY <3>3, <3>4, <5>1, <5>2 DEF FlagsOf
      <4>2. CASE t \in Actions
        <5>1. t \notin Installs /\ \A i \in Installs : i \in Tasks \ {t}
          BY <4>2, TaskKinds
        <5>2. /\ inventory'[n].installing = inventory[n].installing
              /\ inventory'[n].operation = "none"
          BY <3>2, <4>2, <5>1
        <5>3. Active(t) /\ \A a \in Actions \ {t} : a \in Tasks \ {t}
          BY <1>5, <5>1, TaskKinds
        <5>4. \A a \in Actions : ~(Active(a) /\ OnObject(a, n))'
          BY <3>3, <3>4, <4>2, <5>3 DEF FlagsOf
        <5>5. \A i \in Installs : pc[i] = "installing" /\ OnObject(i, n)
                                  => (pc[i] = "installing" /\ OnObject(i, n))'
          BY <1>5, <3>4, <5>1
        <5> QED BY <3>3, <5>2, <5>4, <5>5 DEF FlagsOf
      <4> QED BY <1>5, <4>1, <4>2
    <3> QED BY <1>1, <1>5, <2>1, <2>2, <2>3, <2>4, <3>1, <3>2, <3>5
  <2>6. CASE ~Holds(t, n)
    <3>1. inventory' = inventory /\ \A m \in Known' : SameObject(m)
      BY <1>5, <2>0, <2>6 DEF OnHeld, SameObject, Known
    <3>2. \A m \in Known : ~OnObject(t, m)
      BY <2>0, <2>6 DEF Holds, OnObject
    <3>3. Setup \notin Known' /\ Known' = Known
      BY <2>4, <3>1, TaskKinds DEF Known
    <3> QED BY <1>1, <1>5, <2>1, <2>3, <2>4, <3>1, <3>2, <3>3
  <2> QED BY <2>5, <2>6
<1>6. Holds(t, mem[t].name) => Mine(t) \in Status
  BY <1>0 DEF Holds, Mine
<1>7. CASE EndInstall(t) \/ FailInstall(t)
  <2>1. /\ t \in Installs /\ t \notin Actions /\ pc[t] = "installing"
    BY <1>7, TaskKinds DEF EndInstall, FailInstall, Placed, ScanLabels
  <2>2. Others /\ mem'[t] = Fresh /\ pc'[t] \in {"listing", "done"}
    BY <1>0, <1>7 DEF EndInstall, FailInstall, End, Goto
  <2>3. inventory' = OnHeld(t, [Mine(t) EXCEPT !.installing = FALSE])
    BY <1>7 DEF EndInstall, FailInstall
  <2>4. Mine(t) \in Status =>
           LET status == [Mine(t) EXCEPT !.installing = FALSE] IN
             /\ status.born = Mine(t).born /\ status.installing = FALSE
             /\ status.operation = Mine(t).operation
    BY DEF Status
  <2> QED BY <1>5, <1>6, <2>1, <2>2, <2>3, <2>4
<1>8. CASE FailAction(t) \/ EndAction(t)
  <2>1. /\ t \in Actions /\ t \notin Installs /\ Active(t)
    BY <1>8, TaskKinds DEF FailAction, EndAction, Active
  <2>2. Others /\ mem'[t] = Fresh /\ pc'[t] = "done"
    BY <1>0, <1>8 DEF FailAction, EndAction, End, Goto
  <2>3. inventory' = OnHeld(t, [Mine(t) EXCEPT !.operation = "none"])
    BY <1>8 DEF FailAction, EndAction, EndOperation
  <2>4. Mine(t) \in Status =>
           LET status == [Mine(t) EXCEPT !.operation = "none"] IN
             /\ status.born = Mine(t).born /\ status.operation = "none"
             /\ status.installing = Mine(t).installing
    BY DEF Status
  <2> QED BY <1>5, <1>6, <2>1, <2>2, <2>3, <2>4
<1> QED BY <1>3, <1>4, <1>7, <1>8

\* A rescan adds a status object of its own, which no task holds.
LEMMA FlagsOfAdded ==
    ASSUME TypeOK, Placed, FlagsInv, NEW t \in Calls, AddContainer(t)
    PROVE  BornOnce' /\ \A n \in Known' : FlagsOf(n)'
<1>1. t \in Scans /\ t \in Tasks /\ pc[t] = "adding"
  BY TaskKinds DEF AddContainer, Scans, Placed
<1>2. /\ pc \in [Tasks -> Labels] /\ mem \in [Tasks -> Memory]
      /\ \A n \in Known : inventory[n] \in Status
  BY DEF TypeOK, Labels, Memory
<1>3. PICK n \in mem[t].todo :
        /\ inventory' = Put(inventory, n,
             IF n \in Known THEN [inventory[n] EXCEPT !.stateKnown = TRUE]
             ELSE NewStatus(t))
        /\ mem' = [mem EXCEPT ![t].todo = @ \ {n}]
        /\ Goto(t, IF mem[t].todo = {n} THEN "reading" ELSE "adding")
  BY DEF AddContainer
<1>4. mem[t] \in Memory /\ n \in Names
  BY <1>1, <1>2, <1>3 DEF Memory
<1>5. /\ mem' = [mem EXCEPT ![t] = [mem[t] EXCEPT !.todo = mem[t].todo \ {n}]]
      /\ [mem[t] EXCEPT !.todo = mem[t].todo \ {n}].name = mem[t].name
      /\ [mem[t] EXCEPT !.todo = mem[t].todo \ {n}].born = mem[t].born
      /\ [mem[t] EXCEPT !.todo = mem[t].todo \ {n}].todo = mem[t].todo \ {n}
  BY <1>1, <1>2, <1>3, <1>4 DEF Memory
<1>6. /\ \A u \in Tasks \ {t} : pc'[u] = pc[u] /\ mem'[u] = mem[u]
      /\ \A u \in Tasks : SameHold(u) /\ Held(u)
      /\ mem'[t].todo = mem[t].todo \ {n} /\ pc'[t] \in {"reading", "adding"}
  BY <1>1, <1>2, <1>3, <1>5 DEF Goto, SameHold, Held
<1>7. /\ \A u \in Scans, m \in Names : Unborn(u, m)' => Unborn(u, m)
      /\ Unborn(t, n) /\ ~Unborn(t, n)'
  <2>1. \A u \in Scans : u \in Tasks
    BY TaskKinds DEF Scans
  <2> QED BY <1>1, <1>3, <1>6, <2>1 DEF Unborn
<1>8. \A a \in Actions : Active(a)' <=> Active(a)
  BY <1>1, <1>6, TaskKinds DEF Active, Scans
<1>9. \A i \in Installs : pc[i] = "installing" => pc'[i] = "installing"
  <2>1. \A i \in Installs : i \in Tasks
    BY TaskKinds
  <2> QED BY <1>1, <1>6, <2>1
<1>10. CASE n \in Known
  <2>1. inventory' = Put(inventory, n, [inventory[n] EXCEPT !.stateKnown = TRUE])
    BY <1>3, <1>10
  <2>2. inventory[n] \in Status
    BY <1>2, <1>10
  <2>3. \A m \in Known' : SameObject(m)
    BY <1>10, <2>1, <2>2 DEF Put, SameObject, Known, Status
  <2> QED BY <1>6, <1>7, <1>8, <1>9, <2>3, TaskKinds, QuietKeeps DEF Quiet
<1>11. CASE n \notin Known
  <2>1. /\ Known' = Known \cup {n} /\ inventory'[n] = NewStatus(t)
        /\ \A m \in Known : inventory'[m] = inventory[m]
    BY <1>3, <1>11 DEF Put, Known
  <2>2. \A u \in Tasks : ~(mem[u].name = n /\ mem[u].born = t)
    BY <1>1, <1>4, <1>7 DEF FlagsInv, BornOnce
  <2>3. BornOnce'
    <3> SUFFICES ASSUME NEW u \in Scans, NEW m \in Names, Unborn(u, m)'
                 PROVE  /\ m \in Known' => inventory'[m].born # u
                        /\ \A v \in Tasks : ~(mem'[v].name = m /\ mem'[v].born = u)
      BY DEF BornOnce
    <3>1. /\ m \in Known => inventory[m].born # u
          /\ \A v \in Tasks : ~(mem[v].name = m /\ mem[v].born = u)
      BY <1>7 DEF FlagsInv, BornOnce
    <3>2. m = n => u # t /\ inventory'[m].born = t
      BY <1>7, <2>1 DEF NewStatus
    <3> QED BY <1>6, <2>1, <3>1, <3>2 DEF SameHold
  <2>4. FlagsOf(n)'
    <3>1. \A a \in Actions : ~OnObject(a, n)'
      BY <1>6, <2>1, <2>2, TaskKinds DEF OnObject, SameHold, NewStatus
    <3>2. /\ inventory'[n].installing = FALSE /\ inventory'[n].operation = "none"
      BY <2>1 DEF NewStatus
    <3> QED BY <3>1, <3>2 DEF FlagsOf
  <2>5. ASSUME NEW m \in Known PROVE FlagsOf(m)'
    <3>1. FlagsOf(m)
      BY DEF FlagsInv
    <3>2. \A u \in Tasks : OnObject(u, m)' <=> OnObject(u, m)
      BY <1>6, <2>1 DEF OnObject, SameHold
    <3>3. \A a \in Actions \cup Installs : a \in Tasks
      BY TaskKinds
    <3>4. inventory[m].installing => \E i \in Installs : pc'[i] = "installing" /\ OnObject(i, m)'
      BY <1>9, <3>1, <3>2, <3>3 DEF FlagsOf
    <3>5. inventory[m].operation # "none" <=> \E a \in Actions : (Active(a) /\ OnObject(a, m))'
      BY <1>8, <3>1, <3>2, <3>3 DEF FlagsOf
    <3>6. \A a, b \in Actions : (Active(a) /\ OnObject(a, m) /\ Active(b) /\ OnObject(b, m))'
                                => a = b
      BY <1>8, <3>1, <3>2, <3>3 DEF FlagsOf
    <3> QED BY <2>1, <3>4, <3>5, <3>6 DEF FlagsOf
  <2> QED BY <2>1, <2>3, <2>4, <2>5
<1> QED BY <1>10, <1>11

\* The scanning flag: a task that is scanning goes on, or lowers the flag.
LEMMA ScanOwnedStep ==
    ASSUME TypeOK, Placed, ScanOwned, [Next]_vars
    PROVE  ScanOwned'
<1>0. pc \in [Tasks -> Labels]
  BY DEF TypeOK, Labels
<1>1. \A t : t \in Scanning <=> t \in Scans /\ pc[t] \in ScanLabels
  BY DEF Scanning, Scans, ScanLabels
<1>2. \A t : t \in Scanning' <=> t \in Scans /\ pc'[t] \in ScanLabels
  BY DEF Scanning, Scans, ScanLabels
<1>3. ASSUME scanning' = FALSE PROVE ScanOwned'
  BY <1>3 DEF ScanOwned
<1>4. ASSUME NEW t \in Scans, NEW label \in ScanLabels, Goto(t, label) PROVE ScanOwned'
  <2>1. pc'[t] = label
    BY <1>0, <1>4, TaskKinds DEF Goto, Scans
  <2> QED BY <1>2, <1>4, <2>1 DEF ScanOwned
<1>5. ASSUME UNCHANGED scanning, NEW t \in Tasks, t \notin Scanning, NEW label, Goto(t, label)
      PROVE  ScanOwned'
  <2>1. \A u \in Scanning : u \in Tasks \ {t} /\ pc'[u] = pc[u]
    BY <1>0, <1>1, <1>5, TaskKinds DEF Goto, Scans
  <2> QED BY <1>1, <1>2, <1>5, <2>1 DEF ScanOwned
<1>6. ASSUME UNCHANGED <<scanning, pc>> PROVE ScanOwned'
  BY <1>1, <1>2, <1>6 DEF ScanOwned
<1>7. ASSUME NEW t \in Calls, Begin(t) PROVE ScanOwned'
  <2>1. t \in Tasks /\ (pc[t] = "new" => t \notin Scanning)
    BY <1>1, TaskKinds DEF ScanLabels
  <2>2. CASE BeginRescan(t)
    BY <1>4, <2>2 DEF BeginRescan, Scans, ScanLabels
  <2>3. CASE BeginInstall(t)
    BY <1>5, <2>1, <2>3 DEF BeginInstall
  <2>4. CASE BeginAction(t)
    BY <1>5, <2>1, <2>4 DEF BeginAction
  <2> QED BY <1>7, <2>2, <2>3, <2>4 DEF Begin
<1>8. ASSUME NEW t \in Calls, Step(t) PROVE ScanOwned'
  <2>1. t \in Tasks /\ (t \in Scans \/ t \in Actions) /\ (t \in Actions => t \notin Scanning)
        /\ (pc[t] = "installing" => t \notin Scanning /\ t \in Installs)
    BY <1>1, TaskKinds DEF Scans, Placed, ScanLabels
  <2>2. CASE Recreate(t) \/ CheckNext(t)
    BY <1>6, <2>2 DEF Recreate, CheckNext, shared
  <2>3. CASE EndInstall(t)
    BY <1>4, <2>1, <2>3 DEF EndInstall, Scans, ScanLabels
  <2>4. CASE FailInstall(t) \/ FailAction(t) \/ EndAction(t)
    BY <1>5, <2>1, <2>4 DEF FailInstall, FailAction, EndAction, End
  <2>5. CASE Act(t)
    BY <1>5, <2>1, <2>5 DEF Act, shared, Placed, Scans, ScanLabels
  <2>6. CASE FailScan(t) \/ EndEmptyScan(t) \/ EndChecks(t) \/ Break(t)
    BY <1>3, <2>6 DEF FailScan, EndEmptyScan, EndChecks, Break, Publish, ResetScan
  <2>7. CASE ListContainers(t) \/ ApplyList(t) \/ AddContainer(t) \/ StartChecks(t)
    <3>1. t \in Scans
      BY <2>7, <2>1 DEF ListContainers, ApplyList, AddContainer, StartChecks, Placed, Scans
    <3>2. \E label \in ScanLabels : Goto(t, label)
      BY <2>7 DEF ListContainers, ApplyList, AddContainer, StartChecks, ScanLabels
    <3> QED BY <1>4, <3>1, <3>2
  <2>8. CASE ReadStates(t)
    <3>1. Goto(t, "closing") /\ UNCHANGED scanning
      BY <2>8 DEF ReadStates
    <3> QED BY <1>4, <1>5, <2>1, <3>1 DEF ScanLabels
  <2> QED BY <1>8, <2>2, <2>3, <2>4, <2>5, <2>6, <2>7, <2>8 DEF Step
<1>9. CASE PollStep
  <2>1. Poll \in Tasks /\ Poll \notin Scanning
    BY <1>1, TaskKinds DEF Scans
  <2>2. CASE CheckNext(Poll)
    BY <1>6, <2>2 DEF CheckNext
  <2>3. CASE StartPoll
    BY <1>5, <1>6, <2>1, <2>3 DEF StartPoll
  <2>4. CASE PollChecked \/ ReadStates(Poll) \/ EndPoll
    BY <1>5, <2>1, <2>4 DEF PollChecked, ReadStates, EndPoll
  <2> QED BY <1>9, <2>2, <2>3, <2>4 DEF PollStep
<1>10. CASE ServerChanges \/ UNCHANGED vars
  BY <1>6, <1>10 DEF ServerChanges, vars, shared
<1> QED BY <1>7, <1>8, <1>9, <1>10 DEF Next

LEMMA InitialFlags == Init => FlagsInv
<1> SUFFICES ASSUME Init PROVE FlagsInv
  OBVIOUS
<1>1. /\ \A u \in Tasks : mem[u] = Fresh
      /\ \A t \in Calls : pc[t] = "new"
      /\ scanning = FALSE
  BY TaskKinds DEF Init
<1>2. \A n \in Known : /\ inventory[n].born = Setup /\ inventory[n].installing = FALSE
                       /\ inventory[n].operation = "none"
  BY DEF Init, Known, NewStatus
<1>3. BornOnce
  BY <1>1, <1>2, TaskKinds DEF BornOnce, Fresh, Scans
<1>4. ScanOwned /\ \A n \in Known : FlagsOf(n)
  <2>1. \A a \in Actions : ~Active(a)
    BY <1>1, TaskKinds DEF Active
  <2> QED BY <1>1, <1>2, <2>1 DEF ScanOwned, FlagsOf
<1> QED BY <1>3, <1>4 DEF FlagsInv

LEMMA FlagsStep ==
    TypeOK /\ Placed /\ FlagsInv /\ [Next]_vars => FlagsInv'
<1> SUFFICES ASSUME TypeOK, Placed, FlagsInv, [Next]_vars PROVE FlagsInv'
  OBVIOUS
<1>1. ScanOwned'
  BY ScanOwnedStep DEF FlagsInv
<1>2. ASSUME Quiet PROVE FlagsInv'
  BY <1>1, <1>2, QuietKeeps DEF FlagsInv
<1>3. ASSUME NEW t \in Calls, Begin(t) \/ Step(t) PROVE FlagsInv'
  <2>1. CASE \/ BeginInstall(t) \/ EndInstall(t) \/ FailInstall(t)
             \/ BeginAction(t) \/ FailAction(t) \/ EndAction(t)
    BY <1>1, <2>1, FlagActions DEF FlagsInv
  <2>2. CASE AddContainer(t)
    BY <1>1, <2>2, FlagsOfAdded DEF FlagsInv
  <2>3. CASE \/ BeginRescan(t) \/ Recreate(t) \/ Act(t) \/ ListContainers(t)
             \/ ApplyList(t) \/ FailScan(t) \/ EndEmptyScan(t) \/ StartChecks(t)
             \/ EndChecks(t) \/ Break(t) \/ ReadStates(t) \/ CheckNext(t)
    BY <1>2, <2>3, QuietActions, TaskKinds
  <2> QED BY <1>3, <2>1, <2>2, <2>3 DEF Begin, Step
<1>4. CASE PollStep \/ ServerChanges \/ UNCHANGED vars
  BY <1>2, <1>4, QuietActions, TaskKinds DEF PollStep
<1> QED BY <1>3, <1>4 DEF Next

\* No flag outlives its task: a status object in the inventory is shown as
\* starting or stopping exactly while one such command works on it, and as
\* installing, or the server as scanning, only while a task does.  This needs
\* that a rescan does not create a status object that a task already holds.
THEOREM FlagsAreOwned == Spec => []FlagsOwned
<1>1. FlagsInv => FlagsOwned
  BY DEF FlagsInv, FlagsOwned, FlagsOf, ScanOwned, Active
<1> QED BY <1>1, InitialFlags, FlagsStep, TypedAndPlaced, PTL DEF Spec

(***************************************************************************)
(* The entities, and what is forgotten.                                    *)
(***************************************************************************)

\* Every step but the one that applies a listing keeps the containers that are
\* known, and what keeps them also keeps which of them are tracked, unless a
\* scan is published.
LEMMA InventoryKept ==
    ASSUME TypeOK, Placed,
           \/ \E t \in Calls :
                \/ Begin(t) \/ Recreate(t) \/ EndInstall(t) \/ FailInstall(t)
                \/ Act(t) \/ FailAction(t) \/ EndAction(t) \/ ListContainers(t)
                \/ FailScan(t) \/ StartChecks(t) \/ Break(t)
           \/ \E t \in Tasks : ReadStates(t) \/ CheckNext(t)
           \/ StartPoll \/ PollChecked \/ EndPoll \/ ServerChanges \/ UNCHANGED vars
    PROVE  /\ Known' = Known /\ UNCHANGED entities
           /\ \A n \in Known : inventory'[n].tracked = inventory[n].tracked
<1>0. \A n \in Known : inventory[n] \in Status
  BY DEF TypeOK
<1> DEFINE Kept == Known' = Known /\ \A n \in Known : inventory'[n].tracked = inventory[n].tracked
<1>1. ASSUME UNCHANGED inventory PROVE Kept
  BY <1>1 DEF Known
<1>2. ASSUME NEW n \in Known, NEW status, status.tracked = inventory[n].tracked,
             inventory' = Put(inventory, n, status)
      PROVE  Kept
  BY <1>2 DEF Put, Known
<1>3. ASSUME NEW t \in Tasks,
             \/ inventory' = OnHeld(t, [Mine(t) EXCEPT !.installing = FALSE])
             \/ inventory' = OnHeld(t, [Mine(t) EXCEPT !.operation = "none"])
      PROVE  Kept
  <2>1. CASE Holds(t, mem[t].name)
    <3>1. mem[t].name \in Known /\ Mine(t) \in Status /\ Mine(t) = inventory[mem[t].name]
      BY <1>0, <2>1 DEF Holds, Mine
    <3>2. /\ [Mine(t) EXCEPT !.installing = FALSE].tracked = Mine(t).tracked
          /\ [Mine(t) EXCEPT !.operation = "none"].tracked = Mine(t).tracked
      BY <3>1 DEF Status
    <3> QED BY <1>2, <1>3, <2>1, <3>1, <3>2 DEF OnHeld
  <2>2. CASE ~Holds(t, mem[t].name)
    BY <1>1, <1>3, <2>2 DEF OnHeld
  <2> QED BY <2>1, <2>2
<1>4. ASSUME NEW t \in Tasks, \E ok \in BOOLEAN : inventory' = Checked(t, ok) PROVE Kept
  BY <1>4, CheckedKeeps DEF Known
<1>5. ASSUME NEW known \in BOOLEAN,
             inventory' = [n \in Known |-> [inventory[n] EXCEPT !.stateKnown = known]]
      PROVE  Kept
  BY <1>0, <1>5 DEF Known, Status
<1>6. ASSUME NEW t \in Calls, Begin(t) PROVE Kept /\ UNCHANGED entities
  <2>1. CASE BeginRescan(t)
    BY <1>1, <2>1 DEF BeginRescan
  <2>2. CASE BeginInstall(t)
    <3>1. PICK n \in Known :
            inventory' = Put(inventory, n, [inventory[n] EXCEPT !.installing = TRUE])
      BY <2>2 DEF BeginInstall
    <3>2. [inventory[n] EXCEPT !.installing = TRUE].tracked = inventory[n].tracked
      BY <1>0 DEF Status
    <3> QED BY <1>2, <2>2, <3>1, <3>2 DEF BeginInstall
  <2>3. CASE BeginAction(t)
    <3>1. PICK n \in Known : inventory' = Put(inventory, n, [inventory[n] EXCEPT
                                !.operation = IF t \in Starts THEN "start" ELSE "stop"])
      BY <2>3 DEF BeginAction
    <3>2. \A o : [inventory[n] EXCEPT !.operation = o].tracked = inventory[n].tracked
      BY <1>0 DEF Status
    <3> QED BY <1>2, <2>3, <3>1, <3>2 DEF BeginAction
  <2> QED BY <1>6, <2>1, <2>2, <2>3 DEF Begin
<1>7. ASSUME NEW t \in Tasks, ReadStates(t) \/ CheckNext(t) PROVE Kept /\ UNCHANGED entities
  <2>1. CASE ReadStates(t)
    BY <1>5, <2>1 DEF ReadStates
  <2>2. CASE CheckNext(t)
    BY <1>4, <2>2 DEF CheckNext
  <2> QED BY <1>7, <2>1, <2>2
<1>8. ASSUME NEW t \in Calls,
             \/ Recreate(t) \/ EndInstall(t) \/ FailInstall(t) \/ Act(t) \/ FailAction(t)
             \/ EndAction(t) \/ ListContainers(t) \/ FailScan(t) \/ StartChecks(t) \/ Break(t)
      PROVE  Kept /\ UNCHANGED entities
  <2>1. t \in Tasks
    BY TaskKinds
  <2>2. CASE Recreate(t) \/ Act(t) \/ ListContainers(t) \/ FailScan(t) \/ StartChecks(t)
    BY <1>1, <2>2 DEF Recreate, Act, ListContainers, FailScan, StartChecks, shared
  <2>3. CASE EndInstall(t) \/ FailInstall(t) \/ FailAction(t) \/ EndAction(t)
    BY <1>3, <2>1, <2>3 DEF EndInstall, FailInstall, FailAction, EndAction, EndOperation
  <2>4. CASE Break(t)
    BY <1>4, <2>1, <2>4 DEF Break
  <2> QED BY <1>8, <2>2, <2>3, <2>4
<1>9. CASE StartPoll \/ PollChecked \/ EndPoll
  <2>1. CASE StartPoll
    BY <1>1, <2>1 DEF StartPoll
  <2>2. CASE PollChecked
    BY <1>4, <2>2, TaskKinds DEF PollChecked
  <2>3. CASE EndPoll
    BY <1>1, <1>5, <2>3 DEF EndPoll
  <2> QED BY <1>9, <2>1, <2>2, <2>3
<1>10. CASE ServerChanges \/ UNCHANGED vars
  BY <1>1, <1>10 DEF ServerChanges, vars, shared
<1> QED BY <1>6, <1>7, <1>8, <1>9, <1>10

\* The premise of EntitiesFollow.
Finished ==
    Scanning = {} /\ \A t \in Calls : outcome[t] = "ok" \/ pc[t] = "new" \/ t \in Actions

LEMMA FollowStep ==
    TypeOK /\ Placed /\ Ended /\ EntitiesFollow /\ [Next]_vars => EntitiesFollow'
<1> SUFFICES ASSUME TypeOK, Placed, Ended, EntitiesFollow, [Next]_vars PROVE EntitiesFollow'
  OBVIOUS
<1>0. /\ pc \in [Tasks -> Labels] /\ outcome \in [Calls -> {"none", "ok", "error"}]
  BY DEF TypeOK, Labels
<1> DEFINE Following ==
             /\ entities.control = Known
             /\ entities.update = {n \in Known : inventory[n].tracked}
<1>1. (EntitiesFollow <=> (Finished => Following)) /\ (Finished' => Following') => EntitiesFollow'
  BY DEF EntitiesFollow, Finished
<1>2. Finished => Following
  BY DEF EntitiesFollow, Finished
<1>3. ASSUME NEW t \in Scans, pc'[t] # "new", pc'[t] \in ScanLabels \/ outcome'[t] # "ok"
      PROVE  EntitiesFollow'
  <2>1. t \notin Actions /\ t \in Calls
    BY TaskKinds DEF Scans
  <2>2. ~Finished'
    BY <1>3, <2>1 DEF Finished, Scanning, ScanLabels, Scans
  <2> QED BY <2>2 DEF EntitiesFollow, Finished
<1>4. ASSUME \A t \in Scans : pc'[t] = pc[t] /\ outcome'[t] = outcome[t],
             Known' = Known, UNCHANGED entities,
             \A n \in Known : inventory'[n].tracked = inventory[n].tracked
      PROVE  EntitiesFollow'
  <2>1. Finished' => Finished
    BY <1>4, TaskKinds DEF Finished, Scanning, Scans
  <2> QED BY <1>2, <1>4, <2>1 DEF EntitiesFollow, Finished
\* What is published is what the entities are.
<1>5. ASSUME NEW t \in Calls, NEW inv, Publish(t, inv) PROVE EntitiesFollow'
  BY <1>5 DEF Publish, Sync, EntitiesFollow, Known
\* A scan that is under way, or has not ended well.
<1>6. ASSUME NEW t \in Scans, NEW label \in ScanLabels \cup {"installing"}, Goto(t, label),
             pc[t] # "done", UNCHANGED outcome
      PROVE  EntitiesFollow'
  <2>1. pc'[t] = label /\ t \in Calls
    BY <1>0, <1>6, TaskKinds DEF Goto, Scans
  <2>2. outcome'[t] # "ok"
    BY <1>6, <2>1 DEF Ended
  <2> QED BY <1>3, <2>1, <2>2 DEF ScanLabels
<1>7. ASSUME NEW t \in Scans, End(t, "error") PROVE EntitiesFollow'
  <2>1. outcome'[t] = "error" /\ pc'[t] = "done"
    BY <1>0, <1>7, TaskKinds DEF End, Goto, Scans
  <2> QED BY <1>3, <2>1
\* A step of what is no scan.
<1>8. ASSUME NEW t \in Tasks \ Scans, \E label : Goto(t, label),
             UNCHANGED outcome \/ \E r : End(t, r)
      PROVE  \A u \in Scans : pc'[u] = pc[u] /\ outcome'[u] = outcome[u]
  <2>1. \A u \in Scans : u \in Calls /\ u \in Tasks /\ u # t
    BY <1>8, TaskKinds DEF Scans
  <2> QED BY <1>0, <1>8, <2>1 DEF Goto, End
<1>9. ASSUME NEW t \in Calls, Begin(t) PROVE EntitiesFollow'
  <2>1. CASE BeginRescan(t) \/ BeginInstall(t)
    BY <1>6, <2>1 DEF BeginRescan, BeginInstall, Scans, ScanLabels, history
  <2>2. CASE BeginAction(t)
    BY <1>4, <1>8, <2>2, InventoryKept, TaskKinds DEF Begin, BeginAction, Scans, history
  <2> QED BY <1>9, <2>1, <2>2 DEF Begin
<1>10. ASSUME NEW t \in Calls, Step(t) PROVE EntitiesFollow'
  <2>0. t \in Tasks /\ (t \in Scans \/ t \in Actions) /\ (t \in Actions <=> t \notin Scans)
    BY TaskKinds DEF Scans
  <2>1. CASE Recreate(t) \/ CheckNext(t)
    <3>1. t \in Scans /\ pc'[t] = pc[t] /\ pc[t] \in {"installing", "checking"} /\ UNCHANGED outcome
      BY <2>0, <2>1 DEF Recreate, CheckNext, Placed, history
    <3> QED BY <1>3, <3>1, TaskKinds DEF Ended, Scans
  <2>2. CASE EndInstall(t) \/ ListContainers(t) \/ ApplyList(t) \/ AddContainer(t) \/ StartChecks(t)
    <3>1. t \in Scans /\ pc[t] # "done" /\ UNCHANGED outcome
      BY <2>0, <2>2 DEF EndInstall, ListContainers, ApplyList, AddContainer, StartChecks,
            Placed, Scans, history
    <3>2. \E label \in ScanLabels : Goto(t, label)
      BY <2>2 DEF EndInstall, ListContainers, ApplyList, AddContainer, StartChecks, ScanLabels
    <3> QED BY <1>6, <3>1, <3>2
  <2>3. CASE FailInstall(t) \/ FailScan(t) \/ Break(t)
    <3>1. t \in Scans
      BY <2>0, <2>3 DEF FailInstall, FailScan, Break, Placed, Scans
    <3> QED BY <1>7, <2>3, <3>1 DEF FailInstall, FailScan, Break
  <2>4. CASE EndEmptyScan(t) \/ EndChecks(t)
    BY <1>5, <2>4 DEF EndEmptyScan, EndChecks
  <2>5. CASE Act(t) \/ FailAction(t) \/ EndAction(t)
    <3>1. t \in Tasks \ Scans
      BY <2>0, <2>5 DEF Act, FailAction, EndAction, Placed, Scans, ScanLabels
    <3>2. (\E label : Goto(t, label)) /\ (UNCHANGED outcome \/ \E r : End(t, r))
      BY <2>5 DEF Act, FailAction, EndAction, End, history
    <3> QED BY <1>4, <1>8, <2>5, <3>1, <3>2, InventoryKept
  <2>6. CASE ReadStates(t)
    <3>1. pc[t] = "reading" /\ Goto(t, "closing") /\ UNCHANGED outcome
      BY <2>6 DEF ReadStates, history
    <3>2. CASE t \in Scans
      BY <1>6, <3>1, <3>2 DEF ScanLabels
    <3>3. CASE t \notin Scans
      BY <1>4, <1>8, <2>0, <2>6, <3>1, <3>3, InventoryKept
    <3> QED BY <3>2, <3>3
  <2> QED BY <1>10, <2>1, <2>2, <2>3, <2>4, <2>5, <2>6 DEF Step
<1>11. CASE PollStep
  <2>1. /\ UNCHANGED outcome
        /\ UNCHANGED pc \/ \E label : Goto(Poll, label)
    BY <1>11 DEF PollStep, StartPoll, CheckNext, PollChecked, ReadStates, EndPoll, history
  <2>2. \A u \in Scans : pc'[u] = pc[u] /\ outcome'[u] = outcome[u]
    BY <1>8, <2>1, TaskKinds DEF Scans
  <2> QED BY <1>4, <1>11, <2>2, InventoryKept, TaskKinds DEF PollStep
<1>12. CASE ServerChanges \/ UNCHANGED vars
  BY <1>4, <1>12, InventoryKept DEF ServerChanges, vars, shared, history
<1> QED BY <1>9, <1>10, <1>11, <1>12 DEF Next

\* However scans overlap, once the last of them has ended and none has failed,
\* the entities are those of the inventory: whichever scan ends last publishes
\* what there is then, not what it found.
THEOREM EntitiesDoFollow == Spec => []EntitiesFollow
<1>1. Init => EntitiesFollow
  <2> SUFFICES ASSUME Init PROVE EntitiesFollow
    OBVIOUS
  <2>1. PICK track \in SUBSET Names :
          /\ inventory = [n \in {m \in Names : \/ server[m] = "running"
                                               \/ server[m] # "removed" /\ m \in MeantToRun} |->
                 [NewStatus(Setup) EXCEPT
                      !.checkable = n \in track, !.tracked = n \in track]]
          /\ entities = [control |-> Known, update |-> Known \cap track]
    BY DEF Init
  <2>2. \A n \in Known : inventory[n].tracked <=> n \in track
    BY <2>1 DEF Known, NewStatus
  <2>3. Known \cap track = {n \in Known : inventory[n].tracked}
    BY <2>2
  <2> QED BY <2>1, <2>3 DEF EntitiesFollow
<1> QED BY <1>1, FollowStep, TypedAndPlaced, PTL DEF Spec

\* What is not on the server now, or was not when a scan listed it, is gone.
SeenGone ==
    /\ \A n \in Names : server[n] = "removed" => n \in gone
    /\ \A t \in Tasks : pc[t] = "listed" =>
          \A n \in Names : mem[t].view[n] = "removed" => n \in gone

LEMMA SeenGoneStep == TypeOK /\ Placed /\ SeenGone /\ [Next]_vars => SeenGone'
<1> SUFFICES ASSUME TypeOK, Placed, SeenGone, [Next]_vars PROVE SeenGone'
  OBVIOUS
<1>0. /\ pc \in [Tasks -> Labels] /\ mem \in [Tasks -> Memory] /\ server \in [Names -> States]
  BY DEF TypeOK, Labels, Memory
<1> DEFINE Same(t) == pc'[t] = pc[t] /\ mem'[t] = mem[t]
           Others(t) == \A u \in Tasks \ {t} : Same(u)
\* A step of t that lists nothing, and one that leaves the server alone too.
<1>1. ASSUME gone \subseteq gone', NEW t \in Tasks, Others(t), Same(t) \/ pc'[t] # "listed",
             \A n \in Names : server'[n] = "removed" => server[n] = "removed" \/ n \in gone'
      PROVE  SeenGone'
  <2>1. \A u \in Tasks : pc'[u] = "listed" => Same(u)
    BY <1>1
  <2> QED BY <1>1, <2>1 DEF SeenGone
<1>2. ASSUME UNCHANGED <<server, gone>>, NEW t \in Tasks, Others(t), pc'[t] # "listed"
      PROVE  SeenGone'
  BY <1>1, <1>2
<1>4. ASSUME NEW t \in Calls, Begin(t) PROVE SeenGone'
  <2>1. t \in Tasks /\ UNCHANGED <<server, gone>>
    BY <1>4, TaskKinds DEF Begin, BeginRescan, BeginInstall, BeginAction, history
  <2>2. Others(t) /\ pc'[t] # "listed"
    BY <1>0, <1>4, <2>1 DEF Begin, BeginRescan, BeginInstall, BeginAction, Goto
  <2> QED BY <1>2, <2>1, <2>2
<1>5. ASSUME NEW t \in Calls, Recreate(t) \/ EndInstall(t) \/ Act(t) PROVE SeenGone'
  <2>1. t \in Tasks /\ gone \subseteq gone'
    BY <1>5, TaskKinds DEF Recreate, EndInstall, Act, history
  <2>2. Others(t) /\ (Same(t) \/ pc'[t] # "listed")
    <3>1. CASE Recreate(t)
      BY <3>1 DEF Recreate
    <3>2. CASE EndInstall(t) \/ Act(t)
      BY <1>0, <2>1, <3>2 DEF EndInstall, Act, Goto
    <3> QED BY <1>5, <3>1, <3>2
  <2>3. \A n \in Names : server'[n] = "removed" => server[n] = "removed" \/ n \in gone'
    BY <1>0, <1>5 DEF Recreate, EndInstall, Act
  <2> QED BY <1>1, <2>1, <2>2, <2>3
<1>6. ASSUME NEW t \in Calls, ListContainers(t) PROVE SeenGone'
  <2>1. /\ t \in Tasks /\ UNCHANGED <<server, gone>> /\ pc[t] = "listing"
    BY <1>6, TaskKinds DEF ListContainers, history
  <2>2. CASE Goto(t, "listed") /\ mem' = [mem EXCEPT ![t].view = server]
    <3>1. mem' = [mem EXCEPT ![t] = [mem[t] EXCEPT !.view = server]] /\ mem[t] \in Memory
      BY <1>0, <2>1, <2>2
    <3>2. mem'[t].view = server /\ Others(t)
      BY <1>0, <2>1, <2>2, <3>1 DEF Goto, Memory
    <3> QED BY <2>1, <3>2 DEF SeenGone
  <2>3. CASE Goto(t, "unlisted") /\ UNCHANGED mem
    BY <1>0, <1>2, <2>1, <2>3 DEF Goto
  <2> QED BY <1>6, <2>2, <2>3 DEF ListContainers
<1>7. ASSUME NEW t \in Calls,
             \/ FailInstall(t) \/ FailAction(t) \/ EndAction(t) \/ ApplyList(t) \/ AddContainer(t)
             \/ FailScan(t) \/ EndEmptyScan(t) \/ StartChecks(t) \/ EndChecks(t) \/ Break(t)
      PROVE  SeenGone'
  <2>1. t \in Tasks /\ UNCHANGED <<server, gone>>
    BY <1>7, TaskKinds DEF FailInstall, FailAction, EndAction, ApplyList, AddContainer, FailScan,
          EndEmptyScan, StartChecks, EndChecks, Break, history, shared
  <2>2. CASE \/ FailInstall(t) \/ FailAction(t) \/ EndAction(t)
             \/ FailScan(t) \/ EndEmptyScan(t) \/ EndChecks(t) \/ Break(t)
    <3>1. \E r : End(t, r)
      BY <2>2 DEF FailInstall, FailAction, EndAction, FailScan, EndEmptyScan, EndChecks,
            Break, Publish
    <3> QED BY <1>0, <1>2, <2>1, <3>1 DEF End, Goto
  <2>3. CASE ApplyList(t) \/ AddContainer(t)
    BY <1>0, <1>2, <2>1, <2>3 DEF ApplyList, AddContainer, Goto
  <2>4. CASE StartChecks(t)
    BY <1>0, <1>2, <2>1, <2>4 DEF StartChecks, CheckFirst, Goto
  <2> QED BY <1>7, <2>2, <2>3, <2>4
<1>8. ASSUME NEW t \in Tasks, ReadStates(t) \/ CheckNext(t) PROVE SeenGone'
  <2>1. UNCHANGED <<server, gone>>
    BY <1>8 DEF ReadStates, CheckNext, history
  <2>2. CASE ReadStates(t)
    BY <1>0, <1>2, <2>1, <2>2 DEF ReadStates, Goto
  <2>3. CASE CheckNext(t)
    <3>1. Others(t) /\ pc'[t] = "checking"
      BY <2>3, NextCheckType DEF CheckNext
    <3> QED BY <1>2, <2>1, <3>1
  <2> QED BY <1>8, <2>2, <2>3
<1>9. CASE StartPoll \/ PollChecked \/ EndPoll
  <2>1. UNCHANGED <<server, gone>> /\ Poll \in Tasks
    BY <1>9, TaskKinds DEF StartPoll, PollChecked, EndPoll, history
  <2>2. Others(Poll) /\ (pc'[Poll] # "listed" \/ Same(Poll))
    BY <1>0, <1>9, <2>1 DEF StartPoll, CheckFirst, PollChecked, EndPoll, Goto
  <2> QED BY <1>1, <2>1, <2>2
<1>10. CASE ServerChanges
  <2>1. UNCHANGED <<pc, mem>> /\ gone \subseteq gone' /\ Poll \in Tasks
    BY <1>10, TaskKinds DEF ServerChanges
  <2>2. \A n \in Names : server'[n] = "removed" => server[n] = "removed" \/ n \in gone'
    BY <1>0, <1>10 DEF ServerChanges
  <2> QED BY <1>1, <2>1, <2>2
<1>11. CASE UNCHANGED vars
  BY <1>1, <1>11, TaskKinds DEF vars, history
<1> QED BY <1>4, <1>5, <1>6, <1>7, <1>8, <1>9, <1>10, <1>11, TaskKinds
        DEF Next, Step, PollStep

\* What is known goes only when a listing is applied that did not show it.
LEMMA StaysKnown ==
    ASSUME TypeOK, Placed, SeenGone, [Next]_vars, NEW n \in Known, n \notin Known'
    PROVE  n \in gone \/ \E t \in Calls : pc[t] = "unlisted" /\ pc'[t] # "unlisted"
<1>1. Known' # Known
  OBVIOUS
<1>2. CASE \/ \E t \in Calls :
                \/ Begin(t) \/ Recreate(t) \/ EndInstall(t) \/ FailInstall(t)
                \/ Act(t) \/ FailAction(t) \/ EndAction(t) \/ ListContainers(t)
                \/ FailScan(t) \/ StartChecks(t) \/ Break(t)
           \/ \E t \in Tasks : ReadStates(t) \/ CheckNext(t)
           \/ StartPoll \/ PollChecked \/ EndPoll \/ ServerChanges \/ UNCHANGED vars
  BY <1>1, <1>2, InventoryKept
<1>3. ASSUME NEW t \in Calls, NEW inv, Publish(t, inv), DOMAIN inv = Known PROVE FALSE
  BY <1>1, <1>3 DEF Publish, Tracked, Known
<1>4. ASSUME NEW t \in Calls, EndEmptyScan(t) \/ EndChecks(t) PROVE FALSE
  <2>1. t \in Tasks
    BY TaskKinds
  <2> QED BY <1>3, <1>4, <2>1, CheckedKeeps DEF EndEmptyScan, EndChecks, Known
<1>5. ASSUME NEW t \in Calls, AddContainer(t) PROVE FALSE
  BY <1>5 DEF AddContainer, Put, Known
<1>6. ASSUME NEW t \in Calls, ApplyList(t)
      PROVE  n \in gone \/ (pc[t] = "unlisted" /\ pc'[t] # "unlisted")
  <2>1. t \in Tasks /\ pc \in [Tasks -> Labels] /\ mem[t].view \in [Names -> States]
    BY TaskKinds DEF TypeOK, Labels
  <2>2. CASE pc[t] = "listed"
    <3>1. inventory' = [m \in Known \cap Discovered(mem[t].view) |-> inventory[m]]
      BY <1>6, <2>2 DEF ApplyList
    <3>2. n \notin Discovered(mem[t].view) /\ n \in Names
      BY <3>1 DEF Known, TypeOK
    <3>3. mem[t].view[n] = "removed"
      BY <3>2 DEF Discovered
    <3> QED BY <2>1, <2>2, <3>2, <3>3 DEF SeenGone
  <2>3. CASE pc[t] = "unlisted"
    BY <1>6, <2>1, <2>3 DEF ApplyList, Goto
  <2> QED BY <1>6, <2>2, <2>3 DEF ApplyList
<1> QED BY <1>2, <1>4, <1>5, <1>6, TaskKinds DEF Next, Step, PollStep

\* A container that is known and has been on the server all along is not
\* forgotten, unless by a rescan whose docker ps or docker inspect failed: a
\* listing that an install or somebody else has overtaken drops only what was
\* gone when it was made.
THEOREM KnownDoStayKnown == Spec => KnownStaysKnown
<1>1. Init => SeenGone
  BY TaskKinds DEF Init, SeenGone
<1>2. TypeOK /\ Placed /\ SeenGone /\ [Next]_vars =>
        [\A n \in Known : n \notin DOMAIN inventory' =>
            n \in gone \/ \E t \in Calls : pc[t] = "unlisted" /\ pc'[t] # "unlisted"]_vars
  BY StaysKnown DEF Known
<1> QED BY <1>1, <1>2, SeenGoneStep, TypedAndPlaced, PTL DEF Spec, KnownStaysKnown
=============================================================================
