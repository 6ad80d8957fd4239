------------------------ MODULE PackageUpgradeProofs ------------------------
(***************************************************************************)
(* Theorems about PackageUpgrade, for any sets of operations and checks,   *)
(* any number of reloads of the entry, and any number of versions.         *)
(***************************************************************************)
EXTENDS PackageUpgrade, TLAPS

(***************************************************************************)
(* The invariant.                                                          *)
(***************************************************************************)

\* dpkg's lock: one dist-upgrade at a time, and what it installs is no older
\* than what is installed and no newer than what the lists name.
Unpacking(t) == proc[t] \in {"fetch", "install"}
DpkgExclusive ==
    /\ \A t \in Tasks : Unpacking(t) =>
          t \in Ops /\ installed <= plan[t] /\ plan[t] <= lists
    /\ \A s, t \in Tasks : Unpacking(s) /\ Unpacking(t) => s = t

\* Where a process of an operation can be met, and who waits for it.
Placed(o) ==
    /\ pc[o] \in {"new", "done"} \cup Working
    /\ ssh[o] = "waiting" => pc[o] \in {"lists", "upgrade"}
    /\ pc[o] = "new" => ssh[o] = "none"
    /\ proc[o] = "lists" => pc[o] \in {"lists", "done"}
    /\ Unpacking(o) => pc[o] \in {"upgrade", "done"}
    /\ proc[o] # "none" /\ pc[o] # "done" => ssh[o] \in {"waiting", "raised"}

\* What an operation that has begun to install can still come to.
Touched(o) ==
    /\ proc[o] = "install" => o \in touched
    /\ o \in touched =>
         /\ pc[o] \in {"upgrade", "reboot", "done"}
         /\ proc[o] \in {"none", "install"}
         /\ pc[o] = "upgrade" => ssh[o] \in {"waiting", "ok", "error", "raised"}
    /\ report[o] # "none" => pc[o] = "done"
    /\ report[o] = "fetch" => proc[o] = "none" /\ o \notin touched

\* dist-upgrade has succeeded, for an operation that will report it.
Succeeded(o) ==
    \/ pc[o] = "upgrade" /\ ssh[o] = "ok"
    \/ pc[o] = "reboot"
    \/ report[o] = "ok"
Installed(o) ==
    o \notin Reboots /\ Succeeded(o) => o \in touched /\ plan[o] <= installed

\* How often dist-upgrade may have run.
Retries(o) == IF o \in retried THEN 1 ELSE 0
Counted(o) ==
    /\ pc[o] = "new" => attempts[o] = 0
    /\ pc[o] \in {"new", "delay"} => o \notin retried
    /\ pc[o] = "lists" \/ (pc[o] = "upgrade" /\ ssh[o] \in {"none", "environment"}) =>
          attempts[o] <= Retries(o)
    /\ pc[o] = "upgrade" => attempts[o] <= Retries(o) + 1
    /\ pc[o] = "delay" => attempts[o] <= 1
    /\ attempts[o] <= 2

PlacedInv == \A o \in Ops : Placed(o)
TouchedInv == \A o \in Ops : Touched(o)
InstalledInv == \A o \in Ops : Installed(o)
CountedInv == \A o \in Ops : Counted(o)
PackageInv == TypeOK /\ DpkgExclusive /\ PlacedInv

(***************************************************************************)
(* Types.                                                                  *)
(***************************************************************************)
LEMMA ReadingType ==
    /\ Nothing \in [Parts -> BOOLEAN]
    /\ TypeOK => Truth \in [Parts -> BOOLEAN]
    /\ \A part \in Parts : TypeOK => Shown(part) \in BOOLEAN
    /\ \A part \in Parts : After(part) \in Reading
<1>1. Nothing \in [Parts -> BOOLEAN]
  BY DEF Nothing
<1>2. TypeOK => Truth \in [Parts -> BOOLEAN]
  <2>1. Marker \in BOOLEAN
    BY PackageOptionAssumption
  <2>2. SUFFICES ASSUME TypeOK PROVE Truth \in [Parts -> BOOLEAN]
    OBVIOUS
  <2>3. outdated \in BOOLEAN
    BY <2>2 DEF TypeOK
  <2>4. (lists > installed) \in BOOLEAN /\ (installed > booted) \in BOOLEAN
    OBVIOUS
  <2>5. (Marker /\ installed > booted) \in BOOLEAN
    OBVIOUS
  <2>6. DOMAIN Truth = Parts
    BY DEF Truth, Parts
  <2>7. \A part \in Parts : Truth[part] \in BOOLEAN
    <3>1. Truth["packages"] = (lists > installed) /\ Truth["kernels"] = (installed > booted)
      BY DEF Truth
    <3>2. Truth["marker"] = (Marker /\ installed > booted) /\ Truth["services"] = outdated
      BY DEF Truth
    <3>3. /\ Truth["packages"] \in BOOLEAN /\ Truth["kernels"] \in BOOLEAN
          /\ Truth["marker"] \in BOOLEAN /\ Truth["services"] \in BOOLEAN
      BY <2>3, <2>4, <2>5, <3>1, <3>2, Zenon
    <3> QED BY <3>3 DEF Parts
  <2>8. Truth = [part \in Parts |-> Truth[part]]
    BY <2>6 DEF Truth
  <2> QED BY <2>7, <2>8
<1>3. \A part \in Parts : TypeOK => Shown(part) \in BOOLEAN
  BY <1>2 DEF Shown, NewerKernel
<1>4. \A part \in Parts : After(part) \in Reading
  BY DEF Parts, Reading, After
<1> QED BY <1>1, <1>2, <1>3, <1>4

LEMMA PackagesInitially == Init => PackageInv
<1> SUFFICES ASSUME Init PROVE PackageInv
  OBVIOUS
<1> USE PackageBoundAssumption DEF Init
<1>1. TypeOK
  <2>1. load \in Loads /\ {lists, installed, booted} \subseteq Versions
    BY DEF Loads, Versions
  <2>2. view \in [Checks -> [Parts -> BOOLEAN]]
    BY ReadingType
  <2>3. owner \in [Ops -> Loads] /\ plan \in [Ops -> Versions]
    BY DEF Loads, Versions
  <2>4. attempts \in [Ops -> Nat] /\ booted <= installed /\ installed <= lists
    OBVIOUS
  <2>7. busy \in [Loads -> BOOLEAN] /\ outdated \in BOOLEAN /\ stopping \in BOOLEAN
    BY Zenon
  <2>5. /\ pc \in [Tasks -> {"new"}] /\ ssh \in [Tasks -> {"none"}]
        /\ proc \in [Tasks -> {"none"}] /\ report \in [Tasks -> {"none"}]
    OBVIOUS
  <2>6. /\ retried \subseteq Ops /\ bare \subseteq Ops /\ touched \subseteq Ops
        /\ clean \subseteq Checks
    OBVIOUS
  <2> HIDE DEF Init
  <2> QED BY <2>1, <2>2, <2>3, <2>4, <2>5, <2>6, <2>7 DEF TypeOK
<1>2. DpkgExclusive /\ PlacedInv
  BY DEF DpkgExclusive, PlacedInv, Placed, Unpacking, Tasks
<1> QED BY <1>1, <1>2 DEF PackageInv

\* The steps that touch nothing but what the integration knows itself.
LEMMA EndType ==
    ASSUME TypeOK, NEW o \in Ops, NEW r \in {"ok", "error", "fetch"}, End(o, r)
    PROVE  /\ busy' \in [Loads -> BOOLEAN]
           /\ report' \in [Tasks -> {"none", "refused", "ok", "error", "fetch"}]
           /\ retried' \subseteq Ops /\ bare' \subseteq Ops
           /\ ssh' \in [Tasks -> {"none", "waiting", "ok", "error", "fetch", "environment", "raised"}]
           /\ pc' \in [Tasks -> {"new", "done"} \cup Working \cup Reading]
BY DEF TypeOK, End, Goto, Tasks

LEMMA TypeStep == PackageInv /\ [Next]_vars => TypeOK'
<1> SUFFICES ASSUME PackageInv, [Next]_vars PROVE TypeOK'
  OBVIOUS
<1> USE PackageBoundAssumption DEF PackageInv
<1>1. ASSUME NEW o \in Ops, Refuse(o) \/ Begin(o) PROVE TypeOK'
  <2>1. CASE Refuse(o)
    BY <2>1 DEF TypeOK, Refuse, Goto, server, system, Tasks
  <2>2. CASE Begin(o)
    <3>1. (IF o \in Reboots THEN "reboot" ELSE "lists") \in Working
      BY DEF Working
    <3> QED BY <2>2, <3>1 DEF TypeOK, Begin, Goto, server, system, Tasks
  <2> QED BY <1>1, <2>1, <2>2
<1>2. ASSUME NEW t \in Tasks, SendLists(t) PROVE TypeOK'
  BY <1>2 DEF TypeOK, SendLists, FailAtOnce, Start, client, system
<1>3. ASSUME NEW o \in Ops, AfterLists(o) \/ UpgradeWithoutEnvironment(o) \/ WaitForMirror(o)
      PROVE  TypeOK'
  <2>1. PICK label \in Working : Proceed(o, label)
    BY <1>3 DEF AfterLists, UpgradeWithoutEnvironment, WaitForMirror, Working
  <2>2. /\ bare' \subseteq Ops
        /\ UNCHANGED <<load, busy, owner, retried, server, view, report, attempts, clean>>
    BY <1>3 DEF AfterLists, UpgradeWithoutEnvironment, WaitForMirror, TypeOK
  <2> QED BY <2>1, <2>2 DEF TypeOK, Proceed, Goto, server, system
<1>4. ASSUME NEW o \in Ops, SendUpgrade(o) PROVE TypeOK'
  <2>1. /\ attempts' \in [Ops -> Nat]
        /\ UNCHANGED <<load, busy, owner, pc, retried, bare, report, system, view, touched, clean>>
    BY <1>4 DEF TypeOK, SendUpgrade
  <2>2. PICK outcome \in {"waiting", "error", "environment"} : ssh' = [ssh EXCEPT ![o] = outcome]
    BY <1>4 DEF SendUpgrade, FailAtOnce, Start
  <2>3. proc' \in {proc, [proc EXCEPT ![o] = "fetch"]}
    BY <1>4 DEF SendUpgrade, FailAtOnce, Start
  <2>4. plan' \in {plan, [plan EXCEPT ![o] = lists]}
    BY <1>4 DEF SendUpgrade, FailAtOnce, Start, Planned
  <2>5. plan' \in [Ops -> Versions]
    BY <2>4 DEF TypeOK
  <2>6. ssh' \in [Tasks -> {"none", "waiting", "ok", "error", "fetch", "environment", "raised"}]
    BY <2>2 DEF TypeOK
  <2>7. proc' \in [Tasks -> {"none", "lists", "fetch", "install"}]
    BY <2>3 DEF TypeOK
  <2> QED BY <2>1, <2>5, <2>6, <2>7 DEF TypeOK, system
<1>5. ASSUME NEW o \in Ops, RetryUpgrade(o) PROVE TypeOK'
  BY <1>5 DEF TypeOK, RetryUpgrade, CountRetry, Goto, Working, server, system, Tasks
<1>6. ASSUME NEW o \in Ops, FailUpgrade(o) \/ FinishReboot(o) \/ FailToConnect(o) PROVE TypeOK'
  <2>1. PICK r \in {"ok", "error", "fetch"} : End(o, r)
    BY <1>6 DEF FailUpgrade, FinishReboot, FailToConnect
  <2> QED BY <1>6, <2>1, EndType DEF TypeOK, FailUpgrade, FinishReboot, FailToConnect,
             server, system
<1>7. ASSUME NEW o \in Ops, FinishUpgrade(o) PROVE TypeOK'
  <2>1. CASE End(o, "ok")
    BY <1>7, <2>1, EndType DEF TypeOK, FinishUpgrade, server, system
  <2>2. CASE Proceed(o, "reboot") /\ UNCHANGED <<busy, report, retried, bare>>
    BY <1>7, <2>2 DEF TypeOK, FinishUpgrade, Proceed, Goto, Working, server, system, Tasks
  <2> QED BY <1>7, <2>1, <2>2 DEF FinishUpgrade
<1>8. CASE GoDown
  <2>1. ssh' \in [Tasks -> {"none", "waiting", "ok", "error", "fetch", "environment", "raised"}]
    BY <1>8 DEF TypeOK, GoDown
  <2>2. proc' \in [Tasks -> {"none", "lists", "fetch", "install"}]
    BY <1>8 DEF GoDown
  <2>3. /\ booted' = installed /\ outdated' = FALSE /\ stopping' = FALSE /\ clean' = {}
        /\ UNCHANGED <<client, plan, lists, installed, view, touched>>
    BY <1>8 DEF GoDown
  <2>4. outdated' \in BOOLEAN /\ stopping' \in BOOLEAN
    BY <2>3, Zenon
  <2>5. {lists', installed', booted'} \subseteq Versions /\ booted' <= installed' /\ installed' <= lists'
    BY <2>3 DEF TypeOK, Versions
  <2> QED BY <2>1, <2>2, <2>3, <2>4, <2>5 DEF TypeOK, client
\* A command that is taken for a reboot leaves all but the flag alone.
<1>9. ASSUME stopping' \in {stopping, TRUE},
             ssh' \in [Tasks -> {"none", "waiting", "ok", "error", "fetch", "environment", "raised"}],
             UNCHANGED <<client, proc, plan, lists, installed, booted, outdated, view,
                         touched, clean>>
      PROVE  TypeOK'
  <2>1. stopping' \in BOOLEAN
    <3>1. stopping \in BOOLEAN
      BY DEF TypeOK
    <3> QED BY <1>9, <3>1, Zenon
  <2> QED BY <1>9, <2>1 DEF TypeOK, client
<1>10. ASSUME NEW c \in Checks, StartCheck(c) \/ CheckAfterLists(c) PROVE TypeOK'
  BY <1>10 DEF TypeOK, StartCheck, CheckAfterLists, Proceed, Goto, Working, Reading, Parts,
     server, system, Tasks
<1>11. ASSUME NEW c \in Checks, Read(c) PROVE TypeOK'
  <2>1. pc[c] \in Parts /\ Goto(c, After(pc[c]))
    BY <1>11 DEF Read
  <2>2. pc' \in [Tasks -> {"new", "done"} \cup Working \cup Reading]
    BY <2>1, ReadingType DEF TypeOK, Goto
  <2>3. PICK shown \in BOOLEAN : view' = [view EXCEPT ![c][pc[c]] = shown]
    BY <1>11, <2>1, ReadingType DEF Read
  <2>4. view' \in [Checks -> [Parts -> BOOLEAN]]
    BY <2>3, <2>1 DEF TypeOK
  <2>5. clean' \subseteq Checks
    BY <1>11 DEF Read, TypeOK
  <2> QED BY <1>11, <2>2, <2>4, <2>5 DEF TypeOK, Read, server, system
<1>12. ASSUME NEW c \in Checks, FinishCheck(c) \/ FailCheck(c) PROVE TypeOK'
  <2>1. /\ pc' \in [Tasks -> {"new", "done"} \cup Working \cup Reading]
        /\ report' \in [Tasks -> {"none", "refused", "ok", "error", "fetch"}]
    BY <1>12 DEF TypeOK, FinishCheck, FailCheck, Goto
  <2>2. ssh' \in [Tasks -> {"none", "waiting", "ok", "error", "fetch", "environment", "raised"}]
    BY <1>12 DEF TypeOK, FinishCheck, FailCheck
  <2>3. UNCHANGED <<load, busy, owner, retried, bare, attempts, server, view, clean>>
    BY <1>12 DEF FinishCheck, FailCheck
  <2> QED BY <2>1, <2>2, <2>3 DEF TypeOK, server, system
<1>13. ASSUME NEW t \in Tasks, Timeout(t) \/ Break(t) PROVE TypeOK'
  BY <1>13 DEF TypeOK, Timeout, Break, TimeLimit, client, server, system
<1>14. ASSUME NEW t \in Tasks, EndLists(t) PROVE TypeOK'
  BY <1>14 DEF TypeOK, EndLists, Answer, client, Versions
<1>15. ASSUME NEW t \in Tasks, EndFetch(t) PROVE TypeOK'
  <2>1. t \in Ops
    BY <1>15 DEF EndFetch, DpkgExclusive, Unpacking
  <2> QED BY <1>15, <2>1 DEF TypeOK, EndFetch, Answer, client, system
<1>16. ASSUME NEW t \in Tasks, EndInstall(t) PROVE TypeOK'
  <2>1. t \in Ops /\ installed <= plan[t] /\ plan[t] <= lists
    BY <1>16 DEF EndInstall, DpkgExclusive, Unpacking
  <2>2. /\ installed' \in {installed, plan[t]} /\ outdated' \in BOOLEAN
        /\ UNCHANGED <<client, plan, lists, booted, stopping, view, touched>> /\ clean' = {}
    BY <1>16 DEF EndInstall, TypeOK
  <2>3. ssh' \in [Tasks -> {"none", "waiting", "ok", "error", "fetch", "environment", "raised"}]
    BY <1>16 DEF EndInstall, Answer, TypeOK
  <2>4. proc' \in [Tasks -> {"none", "lists", "fetch", "install"}]
    BY <1>16 DEF EndInstall, TypeOK
  <2>5. installed' \in Versions /\ booted <= installed' /\ installed' <= lists
    BY <2>1, <2>2 DEF TypeOK, Versions
  <2> QED BY <2>2, <2>3, <2>4, <2>5 DEF TypeOK, client
<1>17. ASSUME NEW o \in Ops, SendReboot(o) PROVE TypeOK'
  BY <1>9, <1>17 DEF SendReboot, TypeOK, Tasks
<1>20. CASE OthersReboot
  BY <1>9, <1>20 DEF OthersReboot, TypeOK
<1>18. CASE Reload
  BY <1>18 DEF TypeOK, Reload, Loads, server, system
<1>19. CASE UNCHANGED vars
  BY <1>19 DEF TypeOK, vars, client, system
<1> QED BY <1>1, <1>2, <1>3, <1>4, <1>5, <1>6, <1>7, <1>8, <1>10, <1>11, <1>12, <1>13,
           <1>14, <1>15, <1>16, <1>17, <1>18, <1>19, <1>20
        DEF Next, Work, Check, Environment, Tasks

(***************************************************************************)
(* dpkg's lock, and where processes can be met.                            *)
(***************************************************************************)

\* Steps after which no process has come to the lock, and none has gone.
LEMMA SameProcesses ==
    ASSUME DpkgExclusive, UNCHANGED <<proc, plan, lists, installed>>
    PROVE  DpkgExclusive'
BY DEF DpkgExclusive, Unpacking

\* Processes that end, or change their package lists, leave the lock to the
\* others.
LEMMA FewerProcesses ==
    ASSUME PackageInv, \A t \in Tasks : Unpacking(t)' => Unpacking(t),
           UNCHANGED <<plan, installed>>, lists' \in Nat, lists <= lists'
    PROVE  DpkgExclusive'
<1>1. \A t \in Ops : plan[t] \in Nat
  BY DEF PackageInv, TypeOK, Versions
<1>2. lists \in Nat
  BY DEF PackageInv, TypeOK, Versions
<1> QED BY <1>1, <1>2 DEF PackageInv, DpkgExclusive, Unpacking

LEMMA DpkgStep == PackageInv /\ [Next]_vars => DpkgExclusive'
<1> SUFFICES ASSUME PackageInv, [Next]_vars PROVE DpkgExclusive'
  OBVIOUS
<1>0. lists \in Nat /\ installed \in Nat /\ installed <= lists /\ lists <= lists
  BY DEF PackageInv, TypeOK, Versions
<1>a. DpkgExclusive
  BY DEF PackageInv
<1>1. ASSUME NEW o \in Ops,
             \/ Refuse(o) \/ Begin(o) \/ AfterLists(o) \/ UpgradeWithoutEnvironment(o)
             \/ WaitForMirror(o) \/ RetryUpgrade(o) \/ FailUpgrade(o) \/ FinishUpgrade(o)
             \/ FinishReboot(o) \/ FailToConnect(o)
      PROVE  DpkgExclusive'
  <2>1. UNCHANGED server
    BY <1>1 DEF Refuse, Begin, AfterLists, UpgradeWithoutEnvironment, WaitForMirror,
       RetryUpgrade, FailUpgrade, FinishUpgrade, FinishReboot, FailToConnect
  <2> QED BY <1>a, <2>1, SameProcesses DEF server, system
<1>2. ASSUME NEW t \in Tasks, SendLists(t) PROVE DpkgExclusive'
  <2>1. /\ UNCHANGED <<plan, lists, installed>>
        /\ proc' \in {proc, [proc EXCEPT ![t] = "lists"]}
    BY <1>2 DEF SendLists, FailAtOnce, Start, system
  <2>2. \A p \in Tasks : Unpacking(p)' => Unpacking(p)
    BY <2>1 DEF Unpacking, PackageInv, TypeOK
  <2> QED BY <1>0, <2>1, <2>2, FewerProcesses
<1>3. ASSUME NEW o \in Ops, SendUpgrade(o) PROVE DpkgExclusive'
  <2>0. UNCHANGED system
    BY <1>3 DEF SendUpgrade
  <2>1. CASE UNCHANGED <<proc, plan>>
    BY <1>a, <2>0, <2>1, SameProcesses DEF system
  <2>2. CASE ~DpkgLocked /\ Start(o, "fetch") /\ plan' = [plan EXCEPT ![o] = Planned]
    <3>1. \A t \in Tasks : Unpacking(t)' => t = o
      BY <2>2 DEF DpkgLocked, Start, Unpacking, PackageInv, TypeOK
    <3>2. plan'[o] = lists
      BY <2>2 DEF Planned, PackageInv, TypeOK
    <3> QED BY <1>0, <2>0, <3>1, <3>2 DEF DpkgExclusive, system
  <2> QED BY <1>3, <2>1, <2>2 DEF SendUpgrade, FailAtOnce
<1>4. CASE GoDown
  <2>1. \A t \in Tasks : ~Unpacking(t)'
    BY <1>4 DEF GoDown, Unpacking
  <2> QED BY <2>1 DEF DpkgExclusive
<1>5. ASSUME NEW o \in Ops, SendReboot(o) PROVE DpkgExclusive'
  BY <1>5, <1>a, SameProcesses DEF SendReboot
<1>6. ASSUME NEW c \in Checks,
             \/ StartCheck(c) \/ CheckAfterLists(c) \/ Read(c) \/ FinishCheck(c) \/ FailCheck(c)
      PROVE  DpkgExclusive'
  <2>1. UNCHANGED server
    BY <1>6 DEF StartCheck, CheckAfterLists, Read, FinishCheck, FailCheck
  <2> QED BY <1>a, <2>1, SameProcesses DEF server, system
<1>7. ASSUME NEW t \in Tasks, Break(t) PROVE DpkgExclusive'
  BY <1>7, <1>a, SameProcesses DEF Break, server, system
<1>8. ASSUME NEW t \in Tasks, Timeout(t) \/ EndLists(t) PROVE DpkgExclusive'
  <2>1. /\ UNCHANGED <<plan, installed>> /\ lists' \in Nat /\ lists <= lists'
        /\ proc' \in {proc, [proc EXCEPT ![t] = "none"]}
    BY <1>8, <1>0, PackageBoundAssumption DEF Timeout, EndLists, system
  <2>2. \A p \in Tasks : Unpacking(p)' => Unpacking(p)
    BY <2>1 DEF Unpacking, PackageInv, TypeOK
  <2> QED BY <2>1, <2>2, FewerProcesses
<1>9. ASSUME NEW t \in Tasks, EndFetch(t) PROVE DpkgExclusive'
  <2>1. /\ UNCHANGED <<plan, lists, installed>> /\ Unpacking(t)
        /\ proc' \in {[proc EXCEPT ![t] = "none"], [proc EXCEPT ![t] = "install"]}
    BY <1>9 DEF EndFetch, system, Unpacking
  <2>2. \A p \in Tasks : Unpacking(p)' => Unpacking(p)
    BY <2>1 DEF Unpacking, PackageInv, TypeOK
  <2> QED BY <1>0, <2>1, <2>2, FewerProcesses
<1>10. ASSUME NEW t \in Tasks, EndInstall(t) PROVE DpkgExclusive'
  <2>1. proc' = [proc EXCEPT ![t] = "none"] /\ Unpacking(t)
    BY <1>10 DEF EndInstall, Unpacking
  <2>2. \A p \in Tasks : ~Unpacking(p)'
    BY <2>1 DEF Unpacking, PackageInv, TypeOK, DpkgExclusive
  <2> QED BY <2>2 DEF DpkgExclusive
<1>11. CASE OthersReboot
  BY <1>11, <1>a, SameProcesses DEF OthersReboot
<1>12. CASE Reload \/ UNCHANGED vars
  BY <1>12, <1>a, SameProcesses DEF Reload, vars, server, system
<1> QED BY <1>1, <1>2, <1>3, <1>4, <1>5, <1>6, <1>7, <1>8, <1>9, <1>10, <1>11, <1>12
        DEF Next, Work, Check, Environment, Tasks

\* A step of another task leaves an operation where it is.
LEMMA Elsewhere ==
    ASSUME NEW o \in Ops, Placed(o), pc'[o] = pc[o], ssh'[o] = ssh[o], proc'[o] = proc[o]
    PROVE  Placed(o)'
BY DEF Placed, Unpacking

LEMMA PlacedStep == PackageInv /\ [Next]_vars => PlacedInv'
<1> SUFFICES ASSUME PackageInv, [Next]_vars, NEW p \in Ops PROVE Placed(p)'
  BY DEF PlacedInv
<1>0. Placed(p) /\ p \in Tasks
  BY DEF PackageInv, PlacedInv, Tasks
<1>a. /\ pc \in [Tasks -> {"new", "done"} \cup Working \cup Reading]
      /\ ssh \in [Tasks -> {"none", "waiting", "ok", "error", "fetch", "environment", "raised"}]
      /\ proc \in [Tasks -> {"none", "lists", "fetch", "install"}]
  BY DEF PackageInv, TypeOK
<1> USE DEF Placed, Unpacking
<1>1. ASSUME NEW o \in Ops,
             \/ Refuse(o) \/ Begin(o) \/ AfterLists(o) \/ UpgradeWithoutEnvironment(o)
             \/ WaitForMirror(o) \/ RetryUpgrade(o)
      PROVE  Placed(p)'
  BY <1>1, <1>0, <1>a DEF Refuse, Begin, AfterLists, UpgradeWithoutEnvironment, WaitForMirror,
     RetryUpgrade, IsFetchFailure, Proceed, Goto, Working, server
<1>2. ASSUME NEW o \in Ops, NEW r, End(o, r), UNCHANGED proc, pc[o] # "new" PROVE Placed(p)'
  BY <1>2, <1>0, <1>a DEF End, Goto
<1>3. ASSUME NEW o \in Ops, FailUpgrade(o) \/ FinishReboot(o) \/ FailToConnect(o)
      PROVE  Placed(p)'
  <2>1. (\E r : End(o, r)) /\ UNCHANGED proc /\ pc[o] # "new"
    BY <1>3 DEF FailUpgrade, FinishReboot, FailToConnect, server
  <2> QED BY <2>1, <1>2
<1>4. ASSUME NEW o \in Ops, FinishUpgrade(o) PROVE Placed(p)'
  <2>1. CASE End(o, "ok")
    BY <1>4, <2>1, <1>2 DEF FinishUpgrade, server
  <2>2. CASE Proceed(o, "reboot")
    BY <1>4, <2>2, <1>0, <1>a DEF FinishUpgrade, Upgraded, Proceed, Goto, Working, server
  <2> QED BY <1>4, <2>1, <2>2 DEF FinishUpgrade
<1>5. ASSUME NEW t \in Tasks, SendLists(t) PROVE Placed(p)'
  BY <1>5, <1>0, <1>a DEF SendLists, FailAtOnce, Start, client, Working
<1>6. ASSUME NEW o \in Ops, SendUpgrade(o) PROVE Placed(p)'
  BY <1>6, <1>0, <1>a DEF SendUpgrade, FailAtOnce, Start, Working
<1>7. CASE GoDown
  BY <1>7, <1>0, <1>a DEF GoDown, client, Working
<1>8. ASSUME NEW o \in Ops, SendReboot(o) PROVE Placed(p)'
  BY <1>8, <1>0, <1>a DEF SendReboot, client
<1>9. ASSUME NEW c \in Checks,
             \/ StartCheck(c) \/ CheckAfterLists(c) \/ Read(c) \/ FinishCheck(c) \/ FailCheck(c)
      PROVE  Placed(p)'
  <2>1. c # p
    BY PackageTaskAssumption
  <2>2. pc'[p] = pc[p] /\ ssh'[p] = ssh[p] /\ proc'[p] = proc[p]
    BY <1>9, <2>1, <1>0, <1>a DEF StartCheck, CheckAfterLists, Read, FinishCheck, FailCheck,
       Goto, Proceed, server
  <2> QED BY <1>0, <2>2, Elsewhere
<1>10. ASSUME NEW t \in Tasks, Break(t) \/ Timeout(t) PROVE Placed(p)'
  <2>1. CASE Break(t)
    BY <1>10, <1>0, <1>a, <2>1 DEF Break, client, server, Working, Parts
  <2>2. CASE Timeout(t)
    BY <1>10, <1>0, <1>a, <2>2 DEF Timeout, TimeLimit, client, Working
  <2> QED BY <1>10, <2>1, <2>2
<1>11. ASSUME NEW t \in Tasks, EndLists(t) \/ EndFetch(t) \/ EndInstall(t) PROVE Placed(p)'
  BY <1>11, <1>0, <1>a DEF EndLists, EndFetch, EndInstall, Answer, client, Working
<1>12. CASE OthersReboot
  BY <1>12, <1>0, Elsewhere DEF OthersReboot, client
<1>13. CASE Reload \/ UNCHANGED vars
  BY <1>13, <1>0 DEF Reload, vars, client, server
<1> QED BY <1>1, <1>3, <1>4, <1>5, <1>6, <1>7, <1>8, <1>9, <1>10, <1>11, <1>12, <1>13
        DEF Next, Work, Check, Environment, Tasks

\* The types, dpkg's lock, and where processes are: inductive together.
LEMMA PackageInvariant == Spec => []PackageInv
<1>1. PackageInv /\ [Next]_vars => PackageInv'
  BY TypeStep, DpkgStep, PlacedStep DEF PackageInv
<1> QED BY <1>1, PackagesInitially, PTL DEF Spec

\* The variables keep their types; above all, what is installed is never newer
\* than what the lists name, nor what runs than what is installed.
THEOREM PackageTyping == Spec => []TypeOK
<1>1. PackageInv => TypeOK
  BY DEF PackageInv
<1> QED BY <1>1, PackageInvariant, PTL

(***************************************************************************)
(* The busy flag of each load.                                             *)
(***************************************************************************)
LEMMA SameHolders ==
    ASSUME GatePerLoad, UNCHANGED <<busy, owner>>,
           \A o \in Ops : pc'[o] \in Working <=> pc[o] \in Working
    PROVE  GatePerLoad'
<1>1. \A l \in Loads : Holders(l)' = Holders(l)
  BY DEF Holders
<1> QED BY <1>1 DEF GatePerLoad

LEMMA Entered ==
    ASSUME PackageInv, GatePerLoad, NEW o \in Ops, Begin(o)
    PROVE  GatePerLoad'
<1>1. /\ load \in Loads /\ ~busy[load] /\ pc[o] = "new"
      /\ busy' = [busy EXCEPT ![load] = TRUE] /\ busy \in [Loads -> BOOLEAN]
      /\ owner' = [owner EXCEPT ![o] = load] /\ owner \in [Ops -> Loads]
  BY DEF Begin, GateFree, PackageInv, TypeOK
<1>2. \A p \in Ops : /\ pc'[p] \in Working <=> p = o \/ pc[p] \in Working
                     /\ p # o => owner'[p] = owner[p]
  BY <1>1 DEF Begin, Goto, PackageInv, TypeOK, Working, Tasks
<1>3. owner'[o] = load /\ ~(pc[o] \in Working)
  BY <1>1 DEF Working
<1>4. Holders(load) = {}
  BY <1>1 DEF GatePerLoad
<1>5. Holders(load)' = {o}
  <2>1. o \in Holders(load)'
    BY <1>2, <1>3 DEF Holders, Begin
  <2>2. \A p \in Ops : pc[p] \in Working => owner[p] # load
    BY <1>4 DEF Holders
  <2>3. \A p \in Holders(load)' : p = o
    BY <1>2, <2>2 DEF Holders, Begin
  <2> QED BY <2>1, <2>3
<1>6. \A l \in Loads \ {load} : Holders(l)' = Holders(l)
  BY <1>2, <1>3 DEF Holders
<1>7. busy'[load] /\ Holders(load)' # {} /\ \A q, r \in Holders(load)' : q = r
  BY <1>1, <1>5
<1>8. \A l \in Loads \ {load} : busy'[l] <=> busy[l]
  BY <1>1
<1>9. \A l \in Loads \ {load} : /\ busy'[l] <=> Holders(l)' # {}
                               /\ \A q, r \in Holders(l)' : q = r
  BY <1>6, <1>8 DEF GatePerLoad
<1>10. load' = load
  BY DEF Begin
<1> QED BY <1>7, <1>9, <1>10 DEF GatePerLoad

LEMMA Left ==
    ASSUME PackageInv, GatePerLoad, NEW o \in Ops, NEW r, End(o, r), pc[o] \in Working,
           UNCHANGED owner
    PROVE  GatePerLoad'
<1>1. /\ busy' = [busy EXCEPT ![owner[o]] = FALSE] /\ busy \in [Loads -> BOOLEAN]
      /\ owner[o] \in Loads
  BY DEF End, PackageInv, TypeOK
<1>2. \A p \in Ops : pc'[p] \in Working <=> p # o /\ pc[p] \in Working
  BY DEF End, Goto, PackageInv, TypeOK, Working, Tasks
<1>3. Holders(owner[o])' = {}
  BY <1>1, <1>2 DEF Holders, GatePerLoad
<1>4. \A l \in Loads \ {owner[o]} : Holders(l)' = Holders(l)
  BY <1>2 DEF Holders
<1>5. \A l \in Loads : busy'[l] <=> l # owner[o] /\ busy[l]
  BY <1>1
<1> QED BY <1>1, <1>3, <1>4, <1>5 DEF GatePerLoad

LEMMA GateStep == PackageInv /\ GatePerLoad /\ [Next]_vars => GatePerLoad'
<1> SUFFICES ASSUME PackageInv, GatePerLoad, [Next]_vars PROVE GatePerLoad'
  OBVIOUS
<1>a. pc \in [Tasks -> {"new", "done"} \cup Working \cup Reading] /\ Ops \subseteq Tasks
  BY DEF PackageInv, TypeOK, Tasks
<1>1. ASSUME NEW o \in Ops, Refuse(o) PROVE GatePerLoad'
  <2>1. /\ pc[o] = "new" /\ pc' = [pc EXCEPT ![o] = "done"]
        /\ owner' = [owner EXCEPT ![o] = load] /\ UNCHANGED busy
        /\ owner \in [Ops -> Loads]
    BY <1>1 DEF Refuse, Goto, PackageInv, TypeOK
  <2>2. \A q \in Ops : /\ pc'[q] \in Working <=> pc[q] \in Working
                       /\ pc[q] \in Working => owner'[q] = owner[q]
    BY <2>1, <1>a DEF Working
  <2>3. \A l \in Loads : Holders(l)' = Holders(l)
    BY <2>2 DEF Holders
  <2> QED BY <2>1, <2>3 DEF GatePerLoad
<1>2. ASSUME NEW o \in Ops, Begin(o) PROVE GatePerLoad'
  BY <1>2, Entered
<1>3. ASSUME NEW o \in Ops,
             \/ AfterLists(o) \/ UpgradeWithoutEnvironment(o) \/ WaitForMirror(o) \/ RetryUpgrade(o)
      PROVE  GatePerLoad'
  <2>1. PICK label \in Working : pc' = [pc EXCEPT ![o] = label]
    BY <1>3 DEF AfterLists, UpgradeWithoutEnvironment, WaitForMirror, RetryUpgrade, Proceed, Goto, Working
  <2>2. UNCHANGED <<busy, owner>> /\ pc[o] \in Working
    BY <1>3 DEF AfterLists, UpgradeWithoutEnvironment, WaitForMirror, RetryUpgrade, Working
  <2> QED BY <1>a, <2>1, <2>2, SameHolders
<1>4. ASSUME NEW o \in Ops, FailUpgrade(o) \/ FinishReboot(o) \/ FailToConnect(o) PROVE GatePerLoad'
  <2>1. (\E r : End(o, r)) /\ pc[o] \in Working /\ UNCHANGED owner
    BY <1>4 DEF FailUpgrade, FinishReboot, FailToConnect, Working
  <2> QED BY <2>1, Left
<1>5. ASSUME NEW o \in Ops, FinishUpgrade(o) PROVE GatePerLoad'
  <2>1. pc[o] = "upgrade" /\ UNCHANGED owner
    BY <1>5 DEF FinishUpgrade
  <2>2. CASE End(o, "ok")
    BY <2>1, <2>2, Left DEF Working
  <2>3. CASE Proceed(o, "reboot") /\ UNCHANGED busy
    BY <1>a, <2>1, <2>3, SameHolders DEF Proceed, Goto, Working
  <2> QED BY <1>5, <2>2, <2>3 DEF FinishUpgrade
<1>6. ASSUME NEW t \in Tasks, SendLists(t) \/ Timeout(t) \/ Break(t) \/ EndLists(t)
                             \/ EndFetch(t) \/ EndInstall(t)
      PROVE  GatePerLoad'
  <2>1. UNCHANGED client
    BY <1>6 DEF SendLists, Timeout, Break, EndLists, EndFetch, EndInstall
  <2> QED BY <2>1, SameHolders DEF client
<1>7. ASSUME NEW o \in Ops, SendUpgrade(o) \/ SendReboot(o) PROVE GatePerLoad'
  <2>1. UNCHANGED <<busy, owner, pc>>
    BY <1>7 DEF SendUpgrade, SendReboot, client
  <2> QED BY <2>1, SameHolders
<1>8. ASSUME NEW c \in Checks,
             \/ StartCheck(c) \/ CheckAfterLists(c) \/ Read(c) \/ FinishCheck(c) \/ FailCheck(c)
      PROVE  GatePerLoad'
  <2>1. UNCHANGED <<busy, owner>> /\ \E label : pc' = [pc EXCEPT ![c] = label]
    BY <1>8 DEF StartCheck, CheckAfterLists, Read, FinishCheck, FailCheck, Proceed, Goto
  <2>2. \A o \in Ops : o # c
    BY PackageTaskAssumption
  <2> QED BY <1>a, <2>1, <2>2, SameHolders
<1>9. CASE OthersReboot \/ GoDown \/ Reload \/ UNCHANGED vars
  <2>1. UNCHANGED <<busy, owner, pc>>
    BY <1>9 DEF OthersReboot, GoDown, Reload, vars, client
  <2> QED BY <2>1, SameHolders
<1> QED BY <1>1, <1>2, <1>3, <1>4, <1>5, <1>6, <1>7, <1>8, <1>9
        DEF Next, Work, Check, Environment, Tasks

\* Every load's flag is up exactly while one operation that was called on its
\* coordinator works, and no two of them work at a time.
THEOREM LoadsAreGated == Spec => []GatePerLoad
<1>1. Init => GatePerLoad
  <2> SUFFICES ASSUME Init PROVE GatePerLoad
    OBVIOUS
  <2>1. \A l \in Loads : Holders(l) = {} /\ ~busy[l]
    BY DEF Init, Holders, Working, Tasks
  <2> QED BY <2>1 DEF GatePerLoad
<1> QED BY <1>1, GateStep, PackageInvariant, PTL DEF Spec

(***************************************************************************)
(* The coordinator of each load implements the abstract gate.              *)
(***************************************************************************)

\* An operation that has begun keeps its load.
LEMMA GateOfLoadStep ==
    ASSUME PackageInv, GatePerLoad, [Next]_vars, NEW l \in Loads
    PROVE  [GateOf(l)!Next]_(LoadStatus(l))
<1> DEFINE st(o) == IF pc[o] = "new" \/ owner[o] # l THEN "idle"
                    ELSE IF pc[o] \in Working THEN "working" ELSE "over"
           status == LoadStatus(l)
<1>0. /\ pc \in [Tasks -> {"new", "done"} \cup Working \cup Reading]
      /\ owner \in [Ops -> Loads] /\ load \in Loads
      /\ Ops \subseteq Tasks /\ \A c \in Checks : c \notin Ops
  BY PackageTaskAssumption DEF PackageInv, TypeOK, Tasks
<1>1. status = [o \in Ops |-> st(o)] /\ status' = [o \in Ops |-> st(o)']
  BY DEF LoadStatus
<1> HIDE DEF status
<1>2. ASSUME \A p \in Ops : st(p)' = st(p) PROVE UNCHANGED status
  BY <1>1, <1>2
<1>3. ASSUME NEW o \in Ops, NEW s, s = st(o)', \A p \in Ops \ {o} : st(p)' = st(p)
      PROVE  status' = [status EXCEPT ![o] = s]
  BY <1>1, <1>3
<1>4. ASSUME NEW o \in Ops, Begin(o) PROVE [GateOf(l)!Next]_status
  <2>1. /\ pc[o] = "new" /\ pc'[o] \in Working /\ owner'[o] = load /\ ~busy[load]
        /\ \A p \in Ops \ {o} : pc'[p] = pc[p] /\ owner'[p] = owner[p]
    BY <1>0, <1>4 DEF Begin, Goto, GateFree, Working
  <2>2. \A p \in Ops \ {o} : st(p)' = st(p)
    BY <2>1
  <2>3. CASE load = l
    <3>1. st(o) = "idle" /\ st(o)' = "working"
      BY <2>1, <2>3 DEF Working
    <3>2. \A p \in Ops : st(p) # "working"
      BY <2>1, <2>3 DEF GatePerLoad, Holders
    <3>3. status' = [status EXCEPT ![o] = "working"]
      BY <1>3, <2>2, <3>1
    <3>4. GateOf(l)!Start(o)
      BY <1>1, <3>1, <3>2, <3>3 DEF GateOf!Start, status
    <3> QED BY <3>4 DEF GateOf!Next
  <2>4. CASE load # l
    BY <1>2, <2>1, <2>2, <2>4
  <2> QED BY <2>3, <2>4
<1>5. ASSUME NEW o \in Ops, Refuse(o) PROVE [GateOf(l)!Next]_status
  <2>1. /\ pc[o] = "new" /\ pc'[o] = "done" /\ owner'[o] = load
        /\ \A p \in Ops \ {o} : pc'[p] = pc[p] /\ owner'[p] = owner[p]
    BY <1>0, <1>5 DEF Refuse, Goto
  <2>2. \A p \in Ops \ {o} : st(p)' = st(p)
    BY <2>1
  <2>3. CASE load = l
    <3>1. st(o) = "idle" /\ st(o)' = "over"
      BY <2>1, <2>3 DEF Working
    <3>2. status' = [status EXCEPT ![o] = "over"]
      BY <1>3, <2>2, <3>1
    <3>3. GateOf(l)!Refuse(o)
      BY <1>1, <3>1, <3>2 DEF GateOf!Refuse, status
    <3> QED BY <3>3 DEF GateOf!Next
  <2>4. CASE load # l
    BY <1>2, <2>1, <2>2, <2>4
  <2> QED BY <2>3, <2>4
<1>6. ASSUME NEW o \in Ops, NEW r, End(o, r), pc[o] \in Working, UNCHANGED owner
      PROVE  [GateOf(l)!Next]_status
  <2>1. pc'[o] = "done" /\ \A p \in Ops \ {o} : pc'[p] = pc[p]
    BY <1>0, <1>6 DEF End, Goto
  <2>2. \A p \in Ops \ {o} : st(p)' = st(p)
    BY <1>6, <2>1
  <2>3. CASE owner[o] = l
    <3>1. st(o) = "working" /\ st(o)' = "over"
      BY <1>6, <2>1, <2>3 DEF Working
    <3>2. status' = [status EXCEPT ![o] = "over"]
      BY <1>3, <2>2, <3>1
    <3>3. GateOf(l)!End(o)
      BY <1>1, <3>1, <3>2 DEF GateOf!End, status
    <3> QED BY <3>3 DEF GateOf!Next
  <2>4. CASE owner[o] # l
    BY <1>2, <1>6, <2>2, <2>4
  <2> QED BY <2>3, <2>4
<1>7. ASSUME UNCHANGED owner,
             \A p \in Ops : pc'[p] = pc[p] \/ (pc[p] \in Working /\ pc'[p] \in Working)
      PROVE  UNCHANGED status
  BY <1>2, <1>7 DEF Working
<1>8. ASSUME NEW o \in Ops,
             \/ AfterLists(o) \/ UpgradeWithoutEnvironment(o) \/ WaitForMirror(o) \/ RetryUpgrade(o)
      PROVE  UNCHANGED status
  <2>1. UNCHANGED owner /\ pc[o] \in Working
    BY <1>8 DEF AfterLists, UpgradeWithoutEnvironment, WaitForMirror, RetryUpgrade, Working
  <2>2. PICK label \in Working : pc' = [pc EXCEPT ![o] = label]
    BY <1>8 DEF AfterLists, UpgradeWithoutEnvironment, WaitForMirror, RetryUpgrade, Proceed, Goto, Working
  <2> QED BY <1>0, <1>7, <2>1, <2>2
<1>9. ASSUME NEW o \in Ops, FailUpgrade(o) \/ FinishReboot(o) \/ FailToConnect(o)
      PROVE  [GateOf(l)!Next]_status
  <2>1. (\E r : End(o, r)) /\ pc[o] \in Working /\ UNCHANGED owner
    BY <1>9 DEF FailUpgrade, FinishReboot, FailToConnect, Working
  <2> QED BY <1>6, <2>1
<1>10. ASSUME NEW o \in Ops, FinishUpgrade(o) PROVE [GateOf(l)!Next]_status
  <2>1. pc[o] \in Working /\ UNCHANGED owner
    BY <1>10 DEF FinishUpgrade, Working
  <2>2. CASE End(o, "ok")
    BY <1>6, <2>1, <2>2
  <2>3. CASE Proceed(o, "reboot")
    BY <1>0, <1>7, <2>1, <2>3 DEF Proceed, Goto, Working
  <2> QED BY <1>10, <2>2, <2>3 DEF FinishUpgrade
<1>11. ASSUME NEW t \in Tasks, SendLists(t) \/ Timeout(t) \/ Break(t) \/ EndLists(t)
                              \/ EndFetch(t) \/ EndInstall(t)
       PROVE  UNCHANGED status
  <2>1. UNCHANGED client
    BY <1>11 DEF SendLists, Timeout, Break, EndLists, EndFetch, EndInstall
  <2> QED BY <1>7, <2>1 DEF client
<1>12. ASSUME NEW o \in Ops, SendUpgrade(o) \/ SendReboot(o) PROVE UNCHANGED status
  <2>1. UNCHANGED <<owner, pc>>
    BY <1>12 DEF SendUpgrade, SendReboot, client
  <2> QED BY <1>7, <2>1
<1>13. ASSUME NEW c \in Checks,
              \/ StartCheck(c) \/ CheckAfterLists(c) \/ Read(c) \/ FinishCheck(c) \/ FailCheck(c)
       PROVE  UNCHANGED status
  <2>1. UNCHANGED owner /\ \E label : pc' = [pc EXCEPT ![c] = label]
    BY <1>13 DEF StartCheck, CheckAfterLists, Read, FinishCheck, FailCheck, Proceed, Goto
  <2> QED BY <1>0, <1>7, <2>1
<1>14. ASSUME OthersReboot \/ GoDown \/ Reload \/ UNCHANGED vars PROVE UNCHANGED status
  <2>1. UNCHANGED <<owner, pc>>
    BY <1>14 DEF OthersReboot, GoDown, Reload, vars, client
  <2> QED BY <1>7, <2>1
<1>15. [GateOf(l)!Next]_status
  BY <1>4, <1>5, <1>8, <1>9, <1>10, <1>11, <1>12, <1>13, <1>14
  DEF Next, Work, Check, Environment, Tasks
<1> QED BY <1>15 DEF status

\* The operations of a load take turns, as OperationGate allows.
THEOREM LoadsDoTakeTurns == Spec => LoadsTakeTurns
<1>1. PackageInv /\ GatePerLoad /\ [Next]_vars =>
        [\A l \in Loads : [GateOf(l)!Next]_(LoadStatus(l))]_vars
  BY GateOfLoadStep
<1> QED BY <1>1, LoadsAreGated, PackageInvariant, PackagesInitially, PTL DEF Spec, LoadsTakeTurns

\* The coordinator of every load implements OperationGate, started late.
THEOREM GatesImplemented == \A l \in Loads : Spec => GateOf(l)!Spec
<1> SUFFICES ASSUME NEW l \in Loads PROVE Spec => GateOf(l)!Spec
  OBVIOUS
<1>1. Init => GateOf(l)!Init
  BY DEF Init, GateOf!Init, LoadStatus, Tasks
<1>2. PackageInv /\ GatePerLoad /\ [Next]_vars => [GateOf(l)!Next]_(LoadStatus(l))
  BY GateOfLoadStep
<1> QED BY <1>1, <1>2, LoadsAreGated, PackageInvariant, PackagesInitially, PTL
        DEF Spec, GateOf!Spec

\* A reboot command is never sent while an installation that was called on the
\* same coordinator is waited for, nor while the one it follows still runs.
\* What begins before the server is down may yet be ended by it.
THEOREM RebootsAwaitInstalls == Spec => NoRebootSentDuringInstall
<1>1. PackageInv /\ GatePerLoad /\ [Next]_vars =>
        [\A p \in Ops : SendReboot(p) =>
          \A o \in Ops : (o = p \/ (owner[o] = owner[p] /\ ssh[o] = "waiting"))
                          => proc[o] # "install"]_vars
  <2> SUFFICES ASSUME PackageInv, GatePerLoad, NEW p \in Ops, SendReboot(p), NEW o \in Ops,
                      o = p \/ (owner[o] = owner[p] /\ ssh[o] = "waiting"),
                      proc[o] = "install"
               PROVE  FALSE
    OBVIOUS
  <2>1. pc[p] = "reboot" /\ ssh[p] = "none"
    BY DEF SendReboot
  <2>2. pc[o] \in {"upgrade", "done"} /\ (ssh[o] = "waiting" => pc[o] # "done")
    BY DEF PackageInv, PlacedInv, Placed, Unpacking
  <2>3. owner[o] = owner[p] /\ pc[o] = "upgrade"
    BY <2>1, <2>2
  <2>4. o \in Holders(owner[p]) /\ p \in Holders(owner[p]) /\ owner[p] \in Loads
    BY <2>1, <2>3 DEF Holders, Working, PackageInv, TypeOK
  <2> QED BY <2>1, <2>3, <2>4 DEF GatePerLoad
<1> QED BY <1>1, LoadsAreGated, PackageInvariant, PTL DEF Spec, NoRebootSentDuringInstall

(***************************************************************************)
(* What upgrades report, and how often they try.                           *)
(***************************************************************************)
OutcomeInv == TouchedInv /\ InstalledInv /\ CountedInv
OutcomeOf(o) == Touched(o) /\ Installed(o) /\ Counted(o)

\* What a step leaves alone, it leaves as it was.
LEMMA OutcomeKept ==
    ASSUME NEW o \in Ops, OutcomeOf(o),
           pc'[o] = pc[o], ssh'[o] = ssh[o], proc'[o] = proc[o], report'[o] = report[o],
           attempts'[o] = attempts[o], plan'[o] = plan[o],
           o \in touched' <=> o \in touched, o \in retried' <=> o \in retried,
           installed' = installed
    PROVE  OutcomeOf(o)'
<1>1. Touched(o)'
  BY DEF OutcomeOf, Touched
<1>2. Installed(o)'
  BY DEF OutcomeOf, Installed, Succeeded
<1>3. Counted(o)'
  BY DEF OutcomeOf, Counted, Retries
<1> QED BY <1>1, <1>2, <1>3 DEF OutcomeOf

LEMMA OutcomeStep == PackageInv /\ OutcomeInv /\ [Next]_vars => OutcomeInv'
<1> SUFFICES ASSUME PackageInv, OutcomeInv, [Next]_vars, NEW p \in Ops PROVE OutcomeOf(p)'
  BY DEF OutcomeInv, OutcomeOf, TouchedInv, InstalledInv, CountedInv
<1>0. OutcomeOf(p) /\ Placed(p) /\ p \in Tasks
  BY DEF PackageInv, PlacedInv, OutcomeInv, OutcomeOf, TouchedInv, InstalledInv, CountedInv, Tasks
<1>a. /\ pc \in [Tasks -> {"new", "done"} \cup Working \cup Reading]
      /\ ssh \in [Tasks -> {"none", "waiting", "ok", "error", "fetch", "environment", "raised"}]
      /\ proc \in [Tasks -> {"none", "lists", "fetch", "install"}]
      /\ report \in [Tasks -> {"none", "refused", "ok", "error", "fetch"}]
      /\ attempts \in [Ops -> Nat] /\ plan \in [Ops -> Versions]
      /\ installed \in Nat
      /\ \A v \in Versions : v \in Nat
  BY PackageBoundAssumption DEF PackageInv, TypeOK, Versions
<1>b. attempts[p] \in Nat /\ plan[p] \in Nat
  BY <1>a
\* A step of another task, which leaves the server alone.
<1>1. ASSUME pc'[p] = pc[p], ssh'[p] = ssh[p], report'[p] = report[p],
             p \in retried' <=> p \in retried, UNCHANGED <<server, attempts>>
      PROVE  OutcomeOf(p)'
  BY <1>1, <1>0, OutcomeKept DEF server, system
<1>2. ASSUME NEW o \in Ops, Refuse(o) \/ Begin(o) PROVE OutcomeOf(p)'
  <2>1. CASE o # p
    BY <1>2, <2>1, <1>0, <1>a, <1>1 DEF Refuse, Begin, Goto
  <2>2. CASE o = p
    BY <1>2, <2>2, <1>0, <1>a, <1>b DEF Refuse, Begin, Goto, OutcomeOf, Touched, Installed, Succeeded,
       Counted, Retries, server, system, Placed
  <2> QED BY <2>1, <2>2
<1>3. ASSUME NEW o \in Ops, AfterLists(o) \/ UpgradeWithoutEnvironment(o) PROVE OutcomeOf(p)'
  <2>1. CASE o # p
    BY <1>3, <2>1, <1>0, <1>a, <1>1 DEF AfterLists, UpgradeWithoutEnvironment, Proceed, Goto
  <2>2. CASE o = p
    BY <1>3, <2>2, <1>0, <1>a, <1>b DEF AfterLists, UpgradeWithoutEnvironment, Proceed, Goto, OutcomeOf,
       Touched, Installed, Succeeded, Counted, Retries, server, system, Placed
  <2> QED BY <2>1, <2>2
<1>4. ASSUME NEW o \in Ops, WaitForMirror(o) \/ RetryUpgrade(o) PROVE OutcomeOf(p)'
  <2>1. CASE o # p
    BY <1>4, <2>1, <1>0, <1>a, <1>1 DEF WaitForMirror, RetryUpgrade, CountRetry, Proceed, Goto
  <2>2. CASE o = p
    BY <1>4, <2>2, <1>0, <1>a, <1>b DEF WaitForMirror, RetryUpgrade, CountRetry, IsFetchFailure,
       Proceed, Goto, OutcomeOf, Touched, Installed, Succeeded, Counted, Retries,
       server, system, Placed
  <2> QED BY <2>1, <2>2
<1>5. ASSUME NEW o \in Ops, NEW r \in {"ok", "error", "fetch"}, End(o, r), UNCHANGED <<server, attempts>>,
             o = p => /\ pc[p] \in {"lists", "upgrade", "reboot"}
                      /\ r = "fetch" => pc[p] = "upgrade" /\ ssh[p] = "fetch"
                      /\ r = "ok" /\ p \notin Reboots => Succeeded(p)
      PROVE  OutcomeOf(p)'
  <2>1. CASE o # p
    <3>1. /\ pc'[p] = pc[p] /\ ssh'[p] = ssh[p] /\ report'[p] = report[p]
          /\ p \in retried' <=> p \in retried
      BY <1>5, <2>1, <1>0, <1>a DEF End, Goto
    <3> QED BY <1>5, <3>1, <1>1
  <2>2. CASE o = p
    <3>1. /\ pc'[p] = "done" /\ report'[p] = r /\ ssh'[p] = "none"
          /\ UNCHANGED <<proc, plan, installed, touched, attempts>>
      BY <1>5, <2>2, <1>0, <1>a DEF End, Goto, server, system
    <3>2. Touched(p)'
      BY <1>5, <2>2, <3>1, <1>0 DEF OutcomeOf, Touched, Placed, Unpacking
    <3>3. Installed(p)'
      BY <1>5, <2>2, <3>1, <1>0 DEF OutcomeOf, Installed, Succeeded
    <3>4. Counted(p)'
      BY <3>1, <1>0 DEF OutcomeOf, Counted
    <3> QED BY <3>2, <3>3, <3>4 DEF OutcomeOf
  <2> QED BY <2>1, <2>2
<1>6. ASSUME NEW o \in Ops, FailUpgrade(o) PROVE OutcomeOf(p)'
  <2>1. PICK r \in {"error", "fetch"} :
          /\ End(o, r) /\ pc[o] \in {"lists", "upgrade"}
          /\ r = "fetch" => pc[o] = "upgrade" /\ ssh[o] = "fetch"
    BY <1>6 DEF FailUpgrade, IsFetchFailure
  <2> QED BY <1>6, <2>1, <1>5 DEF FailUpgrade
<1>7. ASSUME NEW o \in Ops, FinishUpgrade(o) PROVE OutcomeOf(p)'
  <2>1. CASE End(o, "ok")
    BY <1>7, <2>1, <1>5 DEF FinishUpgrade, Upgraded, Succeeded
  <2>2. CASE Proceed(o, "reboot") /\ UNCHANGED <<busy, report, retried, bare>>
    <3>1. CASE o # p
      <4>1. /\ pc'[p] = pc[p] /\ ssh'[p] = ssh[p]
            /\ UNCHANGED <<report, retried, server, attempts>>
        BY <1>7, <2>2, <3>1, <1>0, <1>a DEF FinishUpgrade, Proceed, Goto
      <4> QED BY <4>1, <1>1
    <3>2. CASE o = p
      BY <1>7, <2>2, <3>2, <1>0, <1>a, <1>b DEF FinishUpgrade, Upgraded, Proceed, Goto, OutcomeOf,
         Touched, Installed, Succeeded, Counted, Retries, server, system, Placed, Unpacking
    <3> QED BY <3>1, <3>2
  <2> QED BY <1>7, <2>1, <2>2 DEF FinishUpgrade
<1>8. ASSUME NEW o \in Ops, FinishReboot(o) \/ FailToConnect(o) PROVE OutcomeOf(p)'
  <2>1. PICK r \in {"ok", "error"} : End(o, r)
    BY <1>8 DEF FinishReboot, FailToConnect
  <2>2. pc[o] = "reboot" /\ UNCHANGED <<server, attempts>>
    BY <1>8 DEF FinishReboot, FailToConnect
  <2>3. o = p => /\ pc[p] \in {"lists", "upgrade", "reboot"} /\ r # "fetch"
                 /\ Succeeded(p)
    BY <2>1, <2>2 DEF Succeeded
  <2> QED BY <2>1, <2>2, <2>3, <1>5
<1>9. ASSUME NEW t \in Tasks, SendLists(t) PROVE OutcomeOf(p)'
  BY <1>9, <1>0, <1>a, <1>b DEF SendLists, FailAtOnce, Start, client, system, OutcomeOf, Touched, Installed,
     Succeeded, Counted, Retries
<1>10. ASSUME NEW o \in Ops, SendUpgrade(o) PROVE OutcomeOf(p)'
  <2>1. CASE o # p
    BY <1>10, <2>1, <1>0, <1>a, OutcomeKept DEF SendUpgrade, FailAtOnce, Start, system
  <2>2. CASE o = p
    <3>1. Touched(p)'
      BY <1>10, <2>2, <1>0, <1>a DEF SendUpgrade, FailAtOnce, Start, OutcomeOf, Touched, Placed, Unpacking
    <3>2. Installed(p)'
      BY <1>10, <2>2, <1>0, <1>a DEF SendUpgrade, FailAtOnce, Start, OutcomeOf, Touched, Installed, Succeeded
    <3>3. Counted(p)'
      BY <1>10, <2>2, <1>0, <1>a, <1>b DEF SendUpgrade, FailAtOnce, Start, OutcomeOf, Counted, Retries
    <3> QED BY <3>1, <3>2, <3>3 DEF OutcomeOf
  <2> QED BY <2>1, <2>2
<1>11. CASE GoDown
  BY <1>11, <1>0, <1>a, <1>b DEF GoDown, client, OutcomeOf, Touched, Installed, Succeeded, Counted,
     Retries, Placed
<1>12. ASSUME NEW o \in Ops, SendReboot(o) PROVE OutcomeOf(p)'
  BY <1>12, <1>0, <1>a, <1>b DEF SendReboot, client, OutcomeOf, Touched, Installed, Succeeded,
     Counted, Retries
<1>13. ASSUME NEW c \in Checks,
             \/ StartCheck(c) \/ CheckAfterLists(c) \/ Read(c) \/ FinishCheck(c) \/ FailCheck(c)
      PROVE  OutcomeOf(p)'
  <2>1. c # p
    BY PackageTaskAssumption
  <2>2. /\ pc'[p] = pc[p] /\ ssh'[p] = ssh[p] /\ report'[p] = report[p]
        /\ UNCHANGED <<server, retried, attempts>>
    BY <1>13, <2>1, <1>0, <1>a DEF StartCheck, CheckAfterLists, Read, FinishCheck, FailCheck,
       Goto, Proceed
  <2> QED BY <1>0, <2>2, OutcomeKept DEF server, system
<1>14. ASSUME NEW t \in Tasks, Break(t) \/ Timeout(t) PROVE OutcomeOf(p)'
  BY <1>14, <1>0, <1>a, <1>b DEF Break, Timeout, TimeLimit, client, server, system, OutcomeOf, Touched,
     Installed, Succeeded, Counted, Retries, Placed
<1>15. ASSUME NEW t \in Tasks, EndLists(t) PROVE OutcomeOf(p)'
  BY <1>15, <1>0, <1>a, <1>b DEF EndLists, Answer, client, OutcomeOf, Touched,
     Installed, Succeeded, Counted, Retries, Placed
<1>16. ASSUME NEW t \in Tasks, EndFetch(t) PROVE OutcomeOf(p)'
  BY <1>16, <1>0, <1>a, <1>b DEF EndFetch, Answer, client, system, OutcomeOf, Touched,
     Installed, Succeeded, Counted, Retries, Placed, Unpacking
<1>17. ASSUME NEW t \in Tasks, EndInstall(t) PROVE OutcomeOf(p)'
  <2>1. t \in Ops /\ installed <= plan[t] /\ plan[t] \in Nat
    BY <1>17, <1>a DEF EndInstall, PackageInv, DpkgExclusive, Unpacking
  <2>2. /\ UNCHANGED <<pc, report, retried, attempts, plan, touched>> /\ proc[t] = "install"
        /\ installed' = installed \/ installed' = plan[t]
    BY <1>17 DEF EndInstall, client
  <2>8. installed <= installed' /\ installed' \in Nat
    BY <2>1, <2>2, <1>a
  <2>3. \E answer \in {"ok", "error"} :
          /\ ssh'[p] = IF p = t /\ ssh[t] = "waiting" THEN answer ELSE ssh[p]
          /\ answer = "ok" => installed' = plan[t]
    BY <1>17, <1>0, <1>a DEF EndInstall, Answer
  <2>4. proc'[p] = IF p = t THEN "none" ELSE proc[p]
    BY <1>17, <1>0, <1>a DEF EndInstall
  <2>5. Touched(p)'
    BY <2>2, <2>3, <2>4, <1>0, <1>a DEF OutcomeOf, Touched
  <2>6. Installed(p)'
    <3>1. CASE Succeeded(p)
      BY <2>8, <2>2, <3>1, <1>0, <1>a, <1>b DEF OutcomeOf, Installed
    <3>2. CASE ~Succeeded(p) /\ Succeeded(p)'
      <4>1. p = t /\ installed' = plan[p]
        BY <2>2, <2>3, <3>2, <1>0, <1>a DEF Succeeded
      <4> QED BY <2>2, <4>1, <1>0, <1>a, <1>b DEF OutcomeOf, Touched, Installed
    <3> QED BY <3>1, <3>2 DEF Installed
  <2>7. Counted(p)'
    BY <2>2, <2>3, <1>0, <1>a DEF OutcomeOf, Counted, Retries, Placed
  <2> QED BY <2>5, <2>6, <2>7 DEF OutcomeOf
<1>18. CASE OthersReboot
  BY <1>18, <1>0, OutcomeKept DEF OthersReboot, client
<1>19. CASE Reload \/ UNCHANGED vars
  BY <1>19, <1>0, OutcomeKept DEF Reload, vars, client, server, system
<1> QED BY <1>2, <1>3, <1>4, <1>6, <1>7, <1>8, <1>9, <1>10, <1>11, <1>12, <1>13, <1>14, <1>15,
           <1>16, <1>17, <1>18, <1>19
        DEF Next, Work, Check, Environment, Tasks

LEMMA OutcomesKnown == Spec => []OutcomeInv
<1>1. Init => OutcomeInv
  BY DEF Init, OutcomeInv, TouchedInv, InstalledInv, CountedInv, Touched, Installed, Succeeded,
     Counted, Retries, Tasks
<1> QED BY <1>1, PackagesInitially, OutcomeStep, PackageInvariant, PTL DEF Spec

\* An upgrade that is reported as done has installed what the lists named.
THEOREM ReportsAreTrue == Spec => []ReportedInstalled
<1>1. OutcomeInv => ReportedInstalled
  BY PackageTaskAssumption DEF OutcomeInv, InstalledInv, Installed, Succeeded, ReportedInstalled, Ops
<1> QED BY <1>1, OutcomesKnown, PTL

\* An upgrade that says that nothing was installed never began to install.
THEOREM NothingMeansNothing == Spec => []NothingInstalled
<1>1. OutcomeInv => NothingInstalled
  BY DEF OutcomeInv, TouchedInv, Touched, NothingInstalled
<1> QED BY <1>1, OutcomesKnown, PTL

\* dist-upgrade runs at most twice for one operation.
THEOREM TwoAttempts == Spec => []AttemptsBounded
<1>1. OutcomeInv => AttemptsBounded
  BY DEF OutcomeInv, CountedInv, Counted, AttemptsBounded
<1> QED BY <1>1, OutcomesKnown, PTL

(***************************************************************************)
(* What checks show.                                                       *)
(***************************************************************************)

\* _newest_kernel, of the kernels of all versions since the running one: the
\* newest of its flavor, or, where flavors are not recognised, of any, provided
\* that the newest are named like the running one.
NamedAlike == booted \in Numeric <=> installed \in Numeric
LEMMA NewestIsInstalled ==
    ASSUME TypeOK, NamedAlike
    PROVE  NewestKernel(Kernel(booted, 0), Kernels)
             = Kernel(installed, IF booted \in Numeric THEN 0 ELSE 1)
<1>1. booted \in Nat /\ installed \in Nat /\ booted <= installed
  BY PackageBoundAssumption DEF TypeOK, Versions
<1> DEFINE running == Kernel(booted, 0)
           flavor == IF booted \in Numeric THEN 0 ELSE 1
           top == Kernel(installed, flavor)
           compared == {running} \cup Candidates(running, Kernels)
<1>2. \A v, f : Kernel(v, f).version = v /\ Kernel(v, f).flavor = f
  BY DEF Kernel
<1>6. \A v, f : KernelFlavor(Kernel(v, f)) = IF v \in Numeric THEN f ELSE NoFlavor
  <2> SUFFICES ASSUME NEW v, NEW f
               PROVE  KernelFlavor(Kernel(v, f)) = IF v \in Numeric THEN f ELSE NoFlavor
    OBVIOUS
  <2>1. Kernel(v, f).numeric = (v \in Numeric)
    BY DEF Kernel
  <2>2. CASE v \in Numeric
    BY <1>2, <2>1, <2>2, Zenon DEF KernelFlavor
  <2>3. CASE v \notin Numeric
    BY <2>1, <2>3, Zenon DEF KernelFlavor
  <2> QED BY <2>2, <2>3
<1>7. ASSUME NEW r \in compared
      PROVE  /\ r.version \in booted .. installed
             /\ r.flavor \in (IF booted \in Numeric THEN {0} ELSE {0, 1})
             /\ r = Kernel(r.version, r.flavor)
  <2>1. PICK v \in booted .. installed, f \in {0, 1} :
          r = Kernel(v, f) /\ KernelFlavor(r) = KernelFlavor(running)
    BY <1>1 DEF Kernels, Candidates
  <2>2. KernelFlavor(running) = IF booted \in Numeric THEN 0 ELSE NoFlavor
    BY <1>6
  <2>3. KernelFlavor(r) = IF v \in Numeric THEN f ELSE NoFlavor
    BY <1>6, <2>1
  <2>4. booted \in Numeric => f = 0
    BY <2>1, <2>2, <2>3 DEF NoFlavor
  <2> QED BY <1>2, <2>1, <2>4
<1>3. top \in compared
  <2>1. top \in Kernels
    BY <1>1 DEF Kernels
  <2>2. KernelFlavor(top) = KernelFlavor(running)
    BY <1>6 DEF NamedAlike
  <2> QED BY <2>1, <2>2 DEF Candidates
<1>4. \A s \in compared : ~Before(top, s)
  BY <1>1, <1>2, <1>7 DEF Before
<1>5. ASSUME NEW r \in compared, \A s \in compared : ~Before(r, s) PROVE r = top
  <2>1. ~Before(r, top)
    BY <1>3, <1>5
  <2>2. r.version = installed /\ r.flavor = flavor
    BY <1>1, <1>2, <1>5, <1>7, <2>1 DEF Before
  <2> QED BY <1>5, <1>7, <2>2
<1> QED BY <1>3, <1>4, <1>5 DEF NewestKernel

\* So a newer kernel is reported exactly if there is one, where flavors are
\* recognised, and otherwise if there is one or one of another flavor.
LEMMA NewerIfInstalled ==
    ASSUME TypeOK, NamedAlike
    PROVE  NewerKernel(Kernel(booted, 0), Kernels)
             <=> installed > booted \/ booted \notin Numeric
<1>1. booted \in Nat /\ installed \in Nat /\ booted <= installed
  BY PackageBoundAssumption DEF TypeOK, Versions
<1>2. \A v, f : Kernel(v, f).version = v /\ Kernel(v, f).flavor = f
  BY DEF Kernel
<1>3. Kernel(installed, IF booted \in Numeric THEN 0 ELSE 1) = Kernel(booted, 0)
         <=> installed = booted /\ booted \in Numeric
  BY <1>1, <1>2
<1> QED BY <1>1, <1>3, NewestIsInstalled DEF NewerKernel

\* What a check has read by the time it is at a label, and that it shows the
\* server as long as the check is clean.
ReadBefore(label) ==
    CASE label = "marker" -> {"packages"} [] label = "kernels" -> {"packages", "marker"}
      [] label = "services" -> Parts \ {"services"} [] label = "apply" -> Parts [] OTHER -> {}
ShownSoFar ==
    \A c \in Checks \cap clean : \A part \in ReadBefore(pc[c]) : view[c][part] = Shown(part)

LEMMA ShownSoFarStep ==
    ASSUME PackageInv, ShownSoFar, [Next]_vars PROVE ShownSoFar'
<1>0. /\ pc \in [Tasks -> {"new", "done"} \cup Working \cup Reading]
      /\ view \in [Checks -> [Parts -> BOOLEAN]]
      /\ \A c \in Checks : c \in Tasks
      /\ \A o \in Ops : o \notin Checks
  BY PackageTaskAssumption DEF PackageInv, TypeOK, Tasks
<1>1. UNCHANGED <<lists, installed, booted, outdated>> => \A part : Shown(part)' = Shown(part)
  <2>1. UNCHANGED <<lists, installed, booted, outdated>> =>
           Truth' = Truth /\ Kernels' = Kernels /\ Kernel(booted, 0)' = Kernel(booted, 0)
    BY DEF Truth, Kernels, Kernel
  <2> QED BY <2>1 DEF Shown
\* A step that leaves the packages alone, and the checks other than one.
<1>2. ASSUME clean' = {} PROVE ShownSoFar'
  BY <1>2 DEF ShownSoFar
<1>3. ASSUME UNCHANGED <<lists, installed, booted, outdated, view>>, clean' \subseteq clean,
             \A c \in Checks : pc'[c] = pc[c]
      PROVE  ShownSoFar'
  BY <1>1, <1>3 DEF ShownSoFar
<1>4. ASSUME UNCHANGED <<lists, installed, booted, outdated, view>>, NEW c \in Checks, clean' \subseteq clean \cup {c},
             NEW label \in {"lists", "packages", "done"}, Goto(c, label)
      PROVE  ShownSoFar'
  <2>1. pc'[c] = label /\ \A d \in Checks \ {c} : pc'[d] = pc[d]
    BY <1>0, <1>4 DEF Goto
  <2>2. ReadBefore(label) = {}
    BY <1>4 DEF ReadBefore
  <2> QED BY <1>1, <1>4, <2>1, <2>2 DEF ShownSoFar
<1>5. ASSUME NEW o \in Ops, Refuse(o) \/ Begin(o) \/ Work(o) PROVE ShownSoFar'
  <2>1. CASE SendReboot(o)
    BY <1>3, <2>1 DEF SendReboot, client
  <2>2. CASE SendLists(o) \/ SendUpgrade(o)
    BY <1>3, <2>2 DEF SendLists, SendUpgrade, client, system
  <2>3. CASE \/ Refuse(o) \/ Begin(o) \/ AfterLists(o) \/ UpgradeWithoutEnvironment(o)
             \/ WaitForMirror(o) \/ RetryUpgrade(o) \/ FailUpgrade(o) \/ FinishUpgrade(o)
             \/ FinishReboot(o) \/ FailToConnect(o)
    <3>1. UNCHANGED <<system, view, clean>> /\ \E label : Goto(o, label)
      BY <2>3 DEF Refuse, Begin, AfterLists, UpgradeWithoutEnvironment, WaitForMirror,
         RetryUpgrade, FailUpgrade, FinishUpgrade, FinishReboot, FailToConnect, Proceed, End,
         server
    <3>2. \A c \in Checks : pc'[c] = pc[c]
      BY <1>0, <3>1 DEF Goto
    <3> QED BY <1>3, <3>1, <3>2 DEF system
  <2> QED BY <1>5, <2>1, <2>2, <2>3 DEF Work
<1>6. ASSUME NEW c \in Checks, StartCheck(c) \/ CheckAfterLists(c) \/ FinishCheck(c) \/ FailCheck(c)
      PROVE  ShownSoFar'
  <2>1. UNCHANGED <<system, view>> /\ clean' \subseteq clean \cup {c}
    BY <1>6 DEF StartCheck, CheckAfterLists, FinishCheck, FailCheck, server
  <2>2. \E label \in {"lists", "packages", "done"} : Goto(c, label)
    BY <1>6 DEF StartCheck, CheckAfterLists, FinishCheck, FailCheck, Proceed
  <2> QED BY <1>4, <2>1, <2>2 DEF system
<1>7. ASSUME NEW c \in Checks, Read(c) PROVE ShownSoFar'
  <2>1. PICK part \in Parts : part = pc[c]
    BY <1>7 DEF Read
  <2>2. UNCHANGED system /\ clean' \subseteq clean /\ Goto(c, After(part))
    BY <1>7, <2>1 DEF Read, server
  <2>3. pc'[c] = After(part) /\ \A d \in Checks \ {c} : pc'[d] = pc[d] /\ view'[d] = view[d]
    BY <1>0, <1>7, <2>1, <2>2 DEF Read, Goto
  <2>4. ASSUME c \in clean', NEW other \in ReadBefore(After(part))
        PROVE  view'[c][other] = Shown(other)'
    <3>1. view' = [view EXCEPT ![c][part] = Shown(part)] /\ c \in clean
      BY <1>7, <2>1, <2>4 DEF Read
    <3>2. other \in Parts /\ (other = part \/ other \in ReadBefore(part))
      BY <2>1, <2>4 DEF ReadBefore, After, Parts
    <3>3. view'[c] = [view[c] EXCEPT ![part] = Shown(part)] /\ view[c] \in [Parts -> BOOLEAN]
      BY <1>0, <3>1
    <3>4. view'[c][other] = IF other = part THEN Shown(part) ELSE view[c][other]
      BY <2>1, <3>2, <3>3
    <3>5. other # part => view[c][other] = Shown(other)
      BY <2>1, <3>1, <3>2 DEF ShownSoFar
    <3> QED BY <1>1, <2>2, <3>4, <3>5 DEF system
  <2> QED BY <1>1, <2>2, <2>3, <2>4 DEF ShownSoFar, system
<1>8. ASSUME NEW c \in Checks, SendLists(c) PROVE ShownSoFar'
  BY <1>3, <1>8 DEF SendLists, client, system
<1>9. ASSUME NEW t \in Tasks, Timeout(t) \/ Break(t) \/ EndFetch(t) PROVE ShownSoFar'
  BY <1>3, <1>9 DEF Timeout, Break, EndFetch, client, server, system
<1>10. ASSUME NEW t \in Tasks, EndLists(t) \/ EndInstall(t) PROVE ShownSoFar'
  BY <1>2, <1>3, <1>10 DEF EndLists, EndInstall, client, system
<1>11. CASE OthersReboot \/ GoDown
  BY <1>2, <1>3, <1>11 DEF OthersReboot, GoDown, client
<1>12. CASE Reload \/ UNCHANGED vars
  BY <1>3, <1>12 DEF Reload, vars, client, server, system
<1> QED BY <1>5, <1>6, <1>7, <1>8, <1>9, <1>10, <1>11, <1>12 DEF Next, Check, Environment

LEMMA ChecksShow == Spec => [](PackageInv /\ ShownSoFar)
<1>1. Init => ShownSoFar
  BY DEF Init, ShownSoFar
<1> QED BY <1>1, ShownSoFarStep, PackagesInitially, PackageInvariant, PTL DEF Spec

LEMMA FinishedShows ==
    ASSUME PackageInv, ShownSoFar, NEW c \in Checks \cap clean, FinishCheck(c)
    PROVE  /\ \A part \in Parts : view[c][part] = Shown(part)
           /\ view[c] \in [Parts -> BOOLEAN] /\ Truth \in [Parts -> BOOLEAN]
           /\ NamedAlike => (view[c]["kernels"] <=> installed > booted \/ booted \notin Numeric)
<1>1. \A part \in Parts : view[c][part] = Shown(part)
  BY DEF FinishCheck, ShownSoFar, ReadBefore
<1>2. view[c]["kernels"] = NewerKernel(Kernel(booted, 0), Kernels)
  BY <1>1 DEF Shown, Parts
<1>3. NamedAlike => (NewerKernel(Kernel(booted, 0), Kernels)
                       <=> installed > booted \/ booted \notin Numeric)
  BY NewerIfInstalled DEF PackageInv
<1>4. view[c] \in [Parts -> BOOLEAN] /\ Truth \in [Parts -> BOOLEAN]
  BY ReadingType DEF PackageInv, TypeOK
<1> QED BY <1>1, <1>2, <1>3, <1>4

\* Where all kernels are named numerically, a check no command of which failed, and during which neither the packages nor the running system
\* changed, shows the server as it is.
THEOREM CompleteChecksAreExact ==
    ASSUME Versions \subseteq Numeric PROVE Spec => CompleteCheckIsExact
<1>0. PackageInv => NamedAlike /\ booted \in Numeric
  BY DEF PackageInv, TypeOK, NamedAlike
<1>1. ASSUME PackageInv, ShownSoFar, NEW c \in Checks \cap clean, FinishCheck(c)
      PROVE  view[c] = Truth
  <2>1. Truth["kernels"] = (installed > booted)
    BY DEF Truth
  <2>2. view[c]["kernels"] <=> Truth["kernels"]
    BY <1>0, <1>1, <2>1, FinishedShows
  <2>3. \A part \in Parts \ {"kernels"} : view[c][part] = Truth[part]
    BY <1>1, FinishedShows DEF Shown
  <2>4. /\ view[c] \in [Parts -> BOOLEAN] /\ Truth \in [Parts -> BOOLEAN] /\ "kernels" \in Parts
    BY <1>1, FinishedShows DEF Parts
  <2>5. view[c]["kernels"] = Truth["kernels"]
    BY <2>2, <2>4, Zenon
  <2> QED BY <2>3, <2>4, <2>5
<1>2. PackageInv /\ ShownSoFar =>
        [\A c \in Checks \cap clean : FinishCheck(c) => view[c] = Truth]_vars
  BY <1>1
<1> QED BY <1>2, ChecksShow, PTL DEF Spec, CompleteCheckIsExact

\* Where all kernels are named numerically, or none is, no reboot that would
\* make a difference is missed by such a check: what flavors cannot tell apart
\* is a false alarm at worst (ssh_client.py: _newest_kernel).
THEOREM NoRebootIsMissed ==
    ASSUME Versions \subseteq Numeric \/ Versions \cap Numeric = {}
    PROVE  Spec => RebootsAreShown
<1>0. PackageInv => NamedAlike
  BY DEF PackageInv, TypeOK, NamedAlike
<1>1. ASSUME PackageInv, ShownSoFar, NEW c \in Checks \cap clean, FinishCheck(c), NeedsReboot
      PROVE  RebootRequired(view[c])
  <2>1. installed > booted => view[c].kernels
    BY <1>0, <1>1, FinishedShows
  <2>2. outdated => view[c].services
    <3>1. view[c]["services"] = outdated
      BY <1>1, FinishedShows DEF Shown, Truth, Parts
    <3> QED BY <3>1
  <2> QED BY <1>1, <2>1, <2>2 DEF NeedsReboot, RebootRequired
<1>2. PackageInv /\ ShownSoFar =>
        [\A c \in Checks \cap clean :
           FinishCheck(c) /\ NeedsReboot => RebootRequired(view[c])]_vars
  BY <1>1
<1> QED BY <1>2, ChecksShow, PTL DEF Spec, RebootsAreShown

\* Where all kernels are named numerically, an alarm of such a check is real:
\* the scheme is all that keeps flavors from raising false ones.
THEOREM NumericAlarmsAreReal ==
    ASSUME Versions \subseteq Numeric PROVE Spec => AlarmsAreReal
<1>0. PackageInv => NamedAlike /\ booted \in Numeric
  BY DEF PackageInv, TypeOK, NamedAlike
<1>1. ASSUME PackageInv, ShownSoFar, NEW c \in Checks \cap clean, FinishCheck(c),
             RebootRequired(view[c])
      PROVE  NeedsReboot
  <2>1. view[c].kernels => installed > booted
    BY <1>0, <1>1, FinishedShows
  <2>2. \A part \in {"marker", "services"} : view[c][part] = Truth[part]
    BY <1>1, FinishedShows DEF Shown, Parts
  <2>3. view[c].marker => installed > booted
    BY <2>2 DEF Truth
  <2>4. view[c].services => outdated
    BY <2>2 DEF Truth
  <2> QED BY <1>1, <2>1, <2>3, <2>4 DEF RebootRequired, NeedsReboot
<1>2. PackageInv /\ ShownSoFar =>
        [\A c \in Checks \cap clean :
           FinishCheck(c) /\ RebootRequired(view[c]) => NeedsReboot]_vars
  BY <1>1
<1> QED BY <1>2, ChecksShow, PTL DEF Spec, AlarmsAreReal
=============================================================================
