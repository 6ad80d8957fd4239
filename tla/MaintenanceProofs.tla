-------------------------- MODULE MaintenanceProofs --------------------------
(***************************************************************************)
(* Theorems about Maintenance, for any number of servers and of containers *)
(* and every choice of options.                                            *)
(***************************************************************************)
EXTENDS Maintenance, TLAPS

\* The pass has a result of every server it has turned to, the one it could
\* not look up excepted.
Turned ==
    /\ todo \subseteq Servers
    /\ pc = "over" => todo = {}
    /\ pc # "lost" => DOMAIN results = Servers \ todo
    /\ AtServer \/ pc = "broken" => current \in DOMAIN results

\* A step that leaves the domain of the results and what is to do alone, and
\* does not end the pass by itself.
LEMMA TurnedKept ==
    ASSUME Turned, UNCHANGED <<todo, current>>, DOMAIN results' = DOMAIN results,
           AtServer, pc' \notin {"over", "lost"}
    PROVE  Turned'
BY DEF Turned, AtServer, Ends

LEMMA NoteKeeps ==
    ASSUME NEW r, Note(r)
    PROVE  DOMAIN results' = DOMAIN results
BY DEF Note

LEMMA TurnedInitially == Init => Turned
BY DEF Init, Turned, AtServer

\* Every server is accounted for, whatever fails: the conjuncts of Turned are
\* disturbed by Turn and Finish only.
LEMMA TurnedStep == Turned /\ [Next]_vars => Turned'
<1> SUFFICES ASSUME Turned, [Next]_vars PROVE Turned'
  OBVIOUS
<1> USE DEF place, Ends, Operations
<1>1. CASE Turn
  <2>1. PICK s \in todo :
          /\ todo' = todo \ {s}
          /\ current' = s
          /\ IF s \in loaded
             THEN /\ pc' = "refresh"
                  /\ results' = [t \in DOMAIN results \cup {s} |->
                                    IF t = s THEN NewResult ELSE results[t]]
             ELSE pc' = "lost" /\ UNCHANGED results
    BY <1>1 DEF Turn
  <2>2. pc = "next"
    BY <1>1 DEF Turn
  <2>3. CASE s \in loaded
    <3>1. DOMAIN results' = DOMAIN results \cup {s}
      BY <2>1, <2>3
    <3> QED BY <2>1, <2>2, <2>3, <3>1 DEF Turned, AtServer
  <2>4. CASE s \notin loaded
    BY <2>1, <2>2, <2>4 DEF Turned, AtServer
  <2> QED BY <2>3, <2>4
<1>2. CASE Finish
  BY <1>2 DEF Finish, Turned, AtServer
<1>3. CASE FirstRefresh
  <2>1. DOMAIN results' = DOMAIN results
    BY <1>3, NoteKeeps DEF FirstRefresh, Failed, Enter
  <2>2. pc' \notin {"over", "lost"}
    BY <1>3 DEF FirstRefresh, Failed, Enter, StartContainers, AfterContainers
  <2> QED BY <1>3, <2>1, <2>2, TurnedKept DEF FirstRefresh, AtServer
<1>4. CASE EndUpdate
  BY <1>4, TurnedKept DEF EndUpdate, AtServer
<1>5. CASE EndRequest
  <2>1. pc' \notin {"over", "lost"}
    BY <1>5 DEF EndRequest, StartContainers, AfterContainers
  <2> QED BY <1>5, <2>1, TurnedKept DEF EndRequest, AtServer
<1>6. CASE Install
  <2>1. pc' \notin {"over", "lost"}
    BY <1>6 DEF Install, AfterContainers
  <2> QED BY <1>6, <2>1, TurnedKept DEF Install, AtServer
<1>7. CASE FailInstall
  BY <1>7, NoteKeeps, TurnedKept DEF FailInstall, Failed, AtServer
<1>8. CASE BreakInstall
  BY <1>8, TurnedKept DEF BreakInstall, AtServer
<1>9. CASE Prune
  BY <1>9, NoteKeeps, TurnedKept DEF Prune, Failed, AtServer
<1>10. CASE Decide
  <2>1. DOMAIN results' = DOMAIN results
    BY <1>10, NoteKeeps DEF Decide, Failed, Enter
  <2>2. pc' \notin {"over", "lost"}
    BY <1>10 DEF Decide, Failed, Enter
  <2> QED BY <1>10, <2>1, <2>2, TurnedKept DEF Decide, AtServer
<1>11. CASE EndRestart
  BY <1>11, TurnedKept DEF EndRestart, AtServer
<1>12. CASE EndLastRefresh
  BY <1>12, NoteKeeps, TurnedKept DEF EndLastRefresh, AtServer
<1>13. CASE EndReboot
  BY <1>13, NoteKeeps, TurnedKept DEF EndReboot, AtServer
<1>14. CASE FailOperation
  BY <1>14, NoteKeeps, TurnedKept DEF FailOperation, Failed, AtServer
<1>15. CASE Others
  BY <1>15 DEF Others, OthersOperate, OthersRefresh, Unload, Load, Turned, AtServer
<1>16. CASE UNCHANGED vars
  BY <1>16 DEF vars, Turned, AtServer
<1> QED BY <1>1, <1>2, <1>3, <1>4, <1>5, <1>6, <1>7, <1>8, <1>9, <1>10, <1>11,
           <1>12, <1>13, <1>14, <1>15, <1>16 DEF Next, Pass

\* README: an error on one server does not hold up the others.  When the pass
\* returns its results, every selected server has one.
THEOREM EveryServerServed == Spec => []AllServed
<1>1. Turned => AllServed
  BY DEF Turned, AllServed
<1> QED BY TurnedInitially, TurnedStep, <1>1, PTL DEF Spec

(***************************************************************************)
(* Types.                                                                  *)
(***************************************************************************)

LEMMA RefreshType == ASSUME TypeOK, Refresh PROVE data' \in Data /\ lastOk' \in BOOLEAN /\ fresh' \in BOOLEAN
BY DEF TypeOK, Refresh, coordinator

LEMMA StartType ==
    ASSUME StartContainers
    PROVE  pending' \in 0 .. MaxPending /\ pc' \in Labels
BY PendingAssumption DEF StartContainers, AfterContainers, Labels

\* A step that notes a result at a server the pass has turned to.
LEMMA NoteType ==
    ASSUME TypeOK, NEW r \in Result, Note(r)
    PROVE  DOMAIN results' \subseteq Servers /\ \A s \in DOMAIN results' : results'[s] \in Result
BY DEF TypeOK, Note

LEMMA FailedType ==
    ASSUME TypeOK, NEW r \in Result, Failed(r)
    PROVE  /\ pc' \in Labels
           /\ DOMAIN results' \subseteq Servers /\ \A s \in DOMAIN results' : results'[s] \in Result
<1>1. [r EXCEPT !.error = TRUE] \in Result
  BY DEF Result
<1> QED BY <1>1, NoteType DEF Failed, Labels

\* An install is made of a list that is not empty.
Listed == pc = "installing" => pending > 0

\* The list of containers gets shorter, down to its end.
LEMMA InstallType ==
    ASSUME TypeOK, Listed, Install
    PROVE  pending' \in 0 .. MaxPending /\ pc' \in Labels
BY PendingAssumption DEF TypeOK, Listed, Install, AfterContainers, Labels

LEMMA TypeInitially == Init => TypeOK
<1> SUFFICES ASSUME Init PROVE TypeOK
  OBVIOUS
<1>1. data \in Data
  BY DEF Init, Data
<1>2. DOMAIN results = {}
  BY DEF Init
<1>3. pending \in 0 .. MaxPending
  BY PendingAssumption DEF Init
<1>4. pc \in Labels
  BY DEF Init, Labels
<1> QED BY <1>1, <1>2, <1>3, <1>4 DEF Init, TypeOK

LEMMA TypeStep == TypeOK /\ Listed /\ Turned /\ [Next]_vars => TypeOK'
<1> SUFFICES ASSUME TypeOK, Listed, Turned, [Next]_vars PROVE TypeOK'
  OBVIOUS
<1> USE DEF place, entry
<1>0. AtServer => Here \in Result
  BY DEF Turned, TypeOK, Here
<1>1. CASE Turn
  <2>1. PICK s \in todo :
          /\ todo' = todo \ {s}
          /\ current' = s
          /\ IF s \in loaded
             THEN /\ pc' = "refresh"
                  /\ results' = [t \in DOMAIN results \cup {s} |->
                                    IF t = s THEN NewResult ELSE results[t]]
             ELSE pc' = "lost" /\ UNCHANGED results
    BY <1>1 DEF Turn
  <2>2. NewResult \in Result
    BY DEF NewResult, Result
  <2>3. DOMAIN results' \subseteq Servers /\ \A t \in DOMAIN results' : results'[t] \in Result
    BY <2>1, <2>2 DEF TypeOK
  <2>4. pc' \in Labels
    BY <2>1 DEF Labels, Ends
  <2> QED BY <1>1, <2>1, <2>3, <2>4 DEF Turn, TypeOK
<1>2. CASE FirstRefresh
  <2>1. AtServer
    BY <1>2 DEF FirstRefresh, AtServer, Ends
  <2>2. data' \in Data /\ lastOk' \in BOOLEAN /\ fresh' \in BOOLEAN
    BY <1>2, RefreshType DEF FirstRefresh
  <2>3. CASE Failed(Here) /\ UNCHANGED pending
    BY <1>0, <1>2, <2>1, <2>2, <2>3, FailedType DEF FirstRefresh, TypeOK
  <2>4. CASE pc' = "updating" /\ Note(Here) /\ UNCHANGED pending
    BY <1>0, <1>2, <2>1, <2>2, <2>4, NoteType DEF FirstRefresh, TypeOK, Labels, Operations
  <2>5. CASE StartContainers /\ UNCHANGED results
    BY <1>2, <2>2, <2>5, StartType DEF FirstRefresh, TypeOK
  <2> QED BY <1>2, <2>3, <2>4, <2>5 DEF FirstRefresh, Enter
<1>3. CASE EndUpdate
  BY <1>3 DEF EndUpdate, TypeOK, Labels, coordinator
<1>4. CASE EndRequest
  <2>1. data' \in Data /\ lastOk' \in BOOLEAN /\ fresh' \in BOOLEAN
    BY <1>4, RefreshType DEF EndRequest, coordinator, TypeOK
  <2> QED BY <1>4, <2>1, StartType DEF EndRequest, TypeOK
<1>5. CASE Install
  <2>1. pending' \in 0 .. MaxPending /\ pc' \in Labels
    BY <1>5, InstallType
  <2> QED BY <1>5, <2>1 DEF Install, TypeOK, coordinator
<1>6. CASE FailInstall
  BY <1>0, <1>6, FailedType, PendingAssumption DEF FailInstall, TypeOK, coordinator, AtServer, Ends
<1>7. CASE BreakInstall
  BY <1>7 DEF BreakInstall, TypeOK, coordinator, Labels, Ends
<1>8. CASE Prune
  <2>1. CASE Failed(Here)
    BY <1>0, <1>8, <2>1, FailedType DEF Prune, TypeOK, coordinator, AtServer, Ends
  <2>2. CASE pc' = "deciding" /\ UNCHANGED results
    BY <1>8, <2>2 DEF Prune, TypeOK, coordinator, Labels
  <2> QED BY <1>8, <2>1, <2>2 DEF Prune
<1>9. CASE Decide
  <2> DEFINE r == [Here EXCEPT !.required = data'.reboot]
  <2>1. data' \in Data /\ lastOk' \in BOOLEAN /\ fresh' \in BOOLEAN
    BY <1>9, RefreshType DEF Decide
  <2>2. Here \in Result
    BY <1>0, <1>9 DEF Decide, AtServer, Ends
  <2>3. r \in Result
    BY <2>1, <2>2 DEF Result, Data
  <2>4. \/ Failed(Here) \/ Failed(r)
        \/ pc' \in {"rebooting", "restarting", "next"} /\ Note(r)
    BY <1>9 DEF Decide, Enter
  <2> HIDE DEF r
  <2>5. /\ pc' \in Labels
        /\ DOMAIN results' \subseteq Servers /\ \A s \in DOMAIN results' : results'[s] \in Result
    <3>1. CASE Failed(Here) \/ Failed(r)
      BY <2>2, <2>3, <3>1, FailedType
    <3>2. CASE pc' \in {"rebooting", "restarting", "next"} /\ Note(r)
      BY <2>3, <3>2, NoteType DEF Labels, Operations
    <3> QED BY <2>4, <3>1, <3>2
  <2> QED BY <1>9, <2>1, <2>5 DEF Decide, TypeOK
<1>10. CASE EndRestart
  BY <1>10 DEF EndRestart, TypeOK, coordinator, Labels
<1>11. CASE EndLastRefresh
  <2>1. [Here EXCEPT !.services = TRUE] \in Result
    BY <1>0, <1>11 DEF EndLastRefresh, AtServer, Ends, Result
  <2>2. data' \in Data /\ lastOk' \in BOOLEAN /\ fresh' \in BOOLEAN
    BY <1>11, RefreshType DEF EndLastRefresh
  <2> QED BY <1>11, <2>1, <2>2, NoteType DEF EndLastRefresh, TypeOK, Labels
<1>12. CASE EndReboot
  <2>1. [Here EXCEPT !.rebooted = TRUE] \in Result
    BY <1>0, <1>12 DEF EndReboot, AtServer, Ends, Result
  <2> QED BY <1>12, <2>1, NoteType DEF EndReboot, TypeOK, Labels, coordinator
<1>13. CASE FailOperation
  BY <1>0, <1>13, FailedType DEF FailOperation, TypeOK, coordinator, AtServer, Operations, Ends
<1>14. CASE Finish
  BY <1>14 DEF Finish, TypeOK, coordinator, Labels, Ends
<1>15. CASE Others
  BY <1>15, RefreshType DEF Others, OthersOperate, OthersRefresh, Unload, Load, TypeOK, coordinator
<1>16. CASE UNCHANGED vars
  BY <1>16 DEF vars, TypeOK, coordinator
<1> QED BY <1>1, <1>2, <1>3, <1>4, <1>5, <1>6, <1>7, <1>8, <1>9, <1>10, <1>11,
           <1>12, <1>13, <1>14, <1>15, <1>16 DEF Next, Pass

LEMMA ListedPass == Listed /\ Pass => Listed'
<1> USE DEF Listed, AfterContainers, StartContainers, Failed, Enter
<1>1. Turn \/ FirstRefresh \/ EndUpdate \/ EndRequest => Listed'
  BY DEF Turn, FirstRefresh, EndUpdate, EndRequest
<1>2. Listed /\ (Install \/ FailInstall \/ BreakInstall \/ Prune) => Listed'
  BY DEF Install, FailInstall, BreakInstall, Prune
<1>3. Decide \/ EndRestart \/ EndLastRefresh \/ EndReboot => Listed'
  BY DEF Decide, EndRestart, EndLastRefresh, EndReboot
<1>4. FailOperation \/ Finish => Listed'
  BY DEF FailOperation, Finish
<1> QED BY <1>1, <1>2, <1>3, <1>4 DEF Pass

LEMMA ListedOthers == Listed /\ (Others \/ UNCHANGED vars) => Listed'
BY DEF Others, OthersOperate, OthersRefresh, Unload, Load, vars, Listed

\* The variables keep their types, for any servers and any number of
\* containers to update.
THEOREM PassTyping == Spec => []TypeOK
<1>1. Init => Listed
  BY DEF Init, Listed
<1>2. Listed /\ [Next]_vars => Listed'
  BY ListedPass, ListedOthers DEF Next
<1> QED BY TypeInitially, TypeStep, TurnedInitially, TurnedStep, <1>1, <1>2, PTL DEF Spec

(***************************************************************************)
(* Reboots.                                                                *)
(***************************************************************************)

\* What the result of the server at hand says while the pass is there.
Untouched(r) == ~r.error /\ ~r.rebooted /\ ~r.services
Wanted(r) == \/ options.reboot = "always"
             \/ options.reboot = "if_required" /\ r.required

Left(r) ==
    /\ ~r.error => (r.rebooted <=> Wanted(r))
    /\ r.rebooted => ~r.error /\ options.reboot # "never"
    /\ ~(r.rebooted /\ r.services)

Underway(r) ==
    /\ Untouched(r)
    /\ pc = "rebooting" => Wanted(r)
    /\ pc \in {"restarting", "restarted"} => ~Wanted(r)

\* Strengthens RebootsAsAsked: it says as well what the result of the server
\* at hand may be, from which the end of that server follows.
RebootInv ==
    /\ AtServer \/ pc = "broken" => current \in DOMAIN results /\ Underway(Here)
    /\ \A s \in DOMAIN results :
         ~((AtServer \/ pc = "broken") /\ s = current) => Left(results[s])

\* At the server at hand a step replaces its result by another: it stays
\* there with a result of one that is under way, or leaves it.
LEMMA NoteStays ==
    ASSUME RebootInv, AtServer, UNCHANGED <<current, options>>, NEW r, Note(r),
           \/ pc' \notin {"next"} \cup Ends /\ Underway(r)'
           \/ pc' \in {"next", "over", "lost"} /\ Left(r)
    PROVE  RebootInv'
<1>1. /\ DOMAIN results' = DOMAIN results
      /\ current \in DOMAIN results /\ results'[current] = r
      /\ \A s \in DOMAIN results : s # current => results'[s] = results[s]
  BY DEF Note, RebootInv
<1>3. CASE pc' \notin {"next"} \cup Ends /\ Underway(r)'
  <2>1. \A s \in DOMAIN results' : s # current' => Left(results[s])
    BY <1>1 DEF RebootInv
  <2>2. \A s \in DOMAIN results' : s # current' => Left(results[s])'
    BY <1>1, <2>1 DEF Left, Wanted
  <2>3. Underway(r)' = Underway(Here)'
    BY <1>1 DEF Underway, Untouched, Wanted, Here
  <2> QED BY <1>1, <1>3, <2>2, <2>3 DEF RebootInv, AtServer, Ends
<1>4. CASE pc' \in {"next", "over", "lost"} /\ Left(r)
  <2>1. \A s \in DOMAIN results' : Left(results'[s])
    BY <1>1, <1>4 DEF RebootInv
  <2>2. \A s \in DOMAIN results' : Left(results[s])'
    BY <2>1 DEF Left, Wanted
  <2> QED BY <1>4, <2>2 DEF RebootInv, AtServer, Ends
<1> QED BY <1>3, <1>4

\* An error leaves the server with a result that no reboot was made.
LEMMA FailedLeaves ==
    ASSUME RebootInv, AtServer, UNCHANGED <<current, options>>,
           NEW r \in Result, Untouched(r), Failed(r)
    PROVE  RebootInv'
<1>1. [r EXCEPT !.error = TRUE] \in Result /\ Left([r EXCEPT !.error = TRUE])
  BY DEF Result, Left, Untouched
<1> QED BY <1>1, NoteStays DEF Failed

\* A step that goes on at the server with its result as it is.
LEMMA StaysUnderway ==
    ASSUME RebootInv, AtServer, UNCHANGED <<current, options, results>>,
           pc' \notin {"next", "over", "lost", "rebooting", "restarting"},
           pc' = "restarted" => pc \in {"restarting", "restarted"}
    PROVE  RebootInv'
<1>1. Underway(Here)'
  BY DEF RebootInv, Underway, Untouched, Wanted, Here
<1>2. \A s \in DOMAIN results' : s # current' => Left(results[s])'
  BY DEF RebootInv, Left, Wanted
<1> QED BY <1>1, <1>2 DEF RebootInv, AtServer, Ends, Here

LEMMA HereKnown ==
    ASSUME TypeOK, RebootInv, AtServer
    PROVE  Here \in Result /\ Underway(Here) /\ Untouched(Here)
BY DEF TypeOK, RebootInv, Underway, Here

LEMMA RebootInitially == Init => RebootInv
BY DEF Init, RebootInv, AtServer

\* The steps of the pass.
LEMMA RebootPass == TypeOK /\ TypeOK' /\ RebootInv /\ Pass => RebootInv'
<1> SUFFICES ASSUME TypeOK, TypeOK', RebootInv, Pass PROVE RebootInv'
  OBVIOUS
<1> USE DEF place, Ends, Operations
<1>1. CASE Turn
  <2>1. PICK s \in todo :
          /\ current' = s
          /\ IF s \in loaded
             THEN /\ pc' = "refresh"
                  /\ results' = [t \in DOMAIN results \cup {s} |->
                                    IF t = s THEN NewResult ELSE results[t]]
             ELSE pc' = "lost" /\ UNCHANGED results
    BY <1>1 DEF Turn
  <2>2. pc = "next" /\ UNCHANGED options
    BY <1>1 DEF Turn
  <2>3. \A t \in DOMAIN results : Left(results[t])
    BY <2>2 DEF RebootInv, AtServer
  <2>4. CASE s \in loaded
    <3>1. Underway(NewResult)'
      BY <2>1, <2>4 DEF NewResult, Underway, Untouched
    <3>2. /\ DOMAIN results' = DOMAIN results \cup {s}
          /\ results'[s] = NewResult
          /\ \A t \in DOMAIN results' : t # s => t \in DOMAIN results /\ results'[t] = results[t]
      BY <2>1, <2>4
    <3>3. Underway(Here)'
      BY <2>1, <3>1, <3>2 DEF Here, Underway, Untouched, Wanted
    <3>4. \A t \in DOMAIN results' : t # s => Left(results[t])'
      BY <2>2, <2>3, <3>2 DEF Left, Wanted
    <3> QED BY <2>1, <2>4, <3>2, <3>3, <3>4 DEF RebootInv, AtServer
  <2>5. CASE s \notin loaded
    <3>1. \A t \in DOMAIN results' : Left(results[t])'
      BY <2>1, <2>2, <2>3, <2>5 DEF Left, Wanted
    <3> QED BY <2>1, <2>5, <3>1 DEF RebootInv, AtServer
  <2> QED BY <2>4, <2>5
<1>2. CASE Finish
  <2>1. \A t \in DOMAIN results' : Left(results[t])'
    BY <1>2 DEF Finish, RebootInv, AtServer, Left, Wanted
  <2> QED BY <1>2, <2>1 DEF Finish, RebootInv, AtServer
<1>3. CASE FirstRefresh
  <2>1. AtServer /\ UNCHANGED <<current, options>>
    BY <1>3 DEF FirstRefresh, AtServer
  <2>2. CASE Failed(Here)
    BY <2>1, <2>2, FailedLeaves, HereKnown
  <2>3. CASE pc' = "updating" /\ Note(Here)
    BY <2>1, <2>3, NoteStays, HereKnown DEF Underway, Untouched
  <2>4. CASE StartContainers /\ UNCHANGED results
    BY <2>1, <2>4, StaysUnderway DEF StartContainers, AfterContainers
  <2> QED BY <1>3, <2>2, <2>3, <2>4 DEF FirstRefresh, Enter
<1>4. CASE EndUpdate
  BY <1>4, StaysUnderway DEF EndUpdate, AtServer
<1>5. CASE EndRequest
  BY <1>5, StaysUnderway DEF EndRequest, StartContainers, AfterContainers, AtServer
<1>6. CASE Install
  BY <1>6, StaysUnderway DEF Install, AfterContainers, AtServer
<1>7. CASE FailInstall
  BY <1>7, FailedLeaves, HereKnown DEF FailInstall, AtServer
<1>8. CASE BreakInstall
  BY <1>8, StaysUnderway DEF BreakInstall, AtServer
<1>9. CASE Prune
  <2>1. AtServer /\ UNCHANGED <<current, options>>
    BY <1>9 DEF Prune, AtServer
  <2>2. CASE Failed(Here)
    BY <2>1, <2>2, FailedLeaves, HereKnown
  <2>3. CASE pc' = "deciding" /\ UNCHANGED results
    BY <2>1, <2>3, StaysUnderway
  <2> QED BY <1>9, <2>2, <2>3 DEF Prune
<1>10. CASE Decide
  <2> DEFINE r == [Here EXCEPT !.required = data'.reboot]
  <2>1. AtServer /\ UNCHANGED <<current, options>> /\ data' \in Data
    BY <1>10 DEF Decide, AtServer, TypeOK
  <2>2. /\ r \in Result /\ Untouched(r) /\ r.required = data'.reboot
        /\ Here \in Result /\ Untouched(Here)
    BY <2>1, HereKnown DEF Result, Data, Untouched
  <2>3. RebootWanted(data') <=> Wanted(r)
    BY <2>2 DEF RebootWanted, Wanted
  <2> HIDE DEF r
  <2>4. CASE Failed(Here) \/ Failed(r)
    BY <2>1, <2>2, <2>4, FailedLeaves
  <2>5. CASE pc' = "rebooting" /\ Note(r) /\ Wanted(r)
    BY <2>1, <2>2, <2>5, NoteStays DEF Underway, Untouched, Wanted
  <2>6. CASE pc' = "restarting" /\ Note(r) /\ ~Wanted(r)
    BY <2>1, <2>2, <2>6, NoteStays DEF Underway, Untouched, Wanted
  <2>7. CASE pc' = "next" /\ Note(r) /\ ~Wanted(r)
    BY <2>1, <2>2, <2>7, NoteStays DEF Left, Untouched
  <2>8. \/ Failed(Here) \/ Failed(r)
        \/ pc' = "rebooting" /\ Note(r) /\ Wanted(r)
        \/ pc' = "restarting" /\ Note(r) /\ ~Wanted(r)
        \/ pc' = "next" /\ Note(r) /\ ~Wanted(r)
    BY <1>10, <2>3 DEF Decide, Enter, r
  <2> QED BY <2>4, <2>5, <2>6, <2>7, <2>8
<1>11. CASE EndRestart
  BY <1>11, StaysUnderway DEF EndRestart, AtServer
<1>12. CASE EndLastRefresh
  <2> DEFINE r == [Here EXCEPT !.services = TRUE]
  <2>1. AtServer /\ UNCHANGED <<current, options>> /\ pc' = "next" /\ Note(r)
    BY <1>12 DEF EndLastRefresh, AtServer
  <2>2. Here \in Result /\ Untouched(Here) /\ ~Wanted(Here)
    BY <1>12, <2>1, HereKnown DEF EndLastRefresh, Underway
  <2>3. Left(r)
    BY <2>2 DEF Left, Untouched, Wanted, Result
  <2> HIDE DEF r
  <2> QED BY <2>1, <2>3, NoteStays
<1>13. CASE EndReboot
  <2> DEFINE r == [Here EXCEPT !.rebooted = TRUE]
  <2>1. AtServer /\ UNCHANGED <<current, options>> /\ pc' = "next" /\ Note(r)
    BY <1>13 DEF EndReboot, AtServer
  <2>2. Here \in Result /\ Untouched(Here) /\ Wanted(Here)
    BY <1>13, <2>1, HereKnown DEF EndReboot, Underway
  <2>3. Left(r)
    BY <2>2 DEF Left, Untouched, Wanted, Result
  <2> HIDE DEF r
  <2> QED BY <2>1, <2>3, NoteStays
<1>14. CASE FailOperation
  BY <1>14, FailedLeaves, HereKnown DEF FailOperation, AtServer
<1> QED BY <1>1, <1>2, <1>3, <1>4, <1>5, <1>6, <1>7, <1>8, <1>9, <1>10, <1>11,
           <1>12, <1>13, <1>14 DEF Pass

LEMMA RebootOthers ==
    RebootInv /\ (Others \/ UNCHANGED vars) => RebootInv'
<1> SUFFICES ASSUME RebootInv, UNCHANGED <<pc, results, current, options>> PROVE RebootInv'
  BY DEF Others, OthersOperate, OthersRefresh, Unload, Load, vars, place
<1> QED BY DEF RebootInv, AtServer, Underway, Untouched, Wanted, Left, Here

\* README: a server is rebooted exactly if the option reboot says so of what
\* the server required after its updates, and no services are restarted where
\* a reboot follows, whatever fails and whatever others do meanwhile.
THEOREM RebootsHold == Spec => []RebootsAsAsked
<1>1. RebootInv => RebootsAsAsked
  BY DEF RebootInv, RebootsAsAsked, AtServer, Ends, Left, Wanted, Underway
<1>2. TypeOK /\ TypeOK' /\ RebootInv /\ [Next]_vars => RebootInv'
  BY RebootPass, RebootOthers DEF Next
<1> QED BY PassTyping, RebootInitially, <1>1, <1>2, PTL DEF Spec

(***************************************************************************)
(* Fresh data.                                                             *)
(***************************************************************************)

\* What comes last is decided in Decide, right after its refresh.
LEMMA DecideFresh == Decide /\ pc' \in {"restarting", "rebooting"} => fresh' \/ orphan
<1> SUFFICES ASSUME Decide, pc' \in {"restarting", "rebooting"}, ~orphan PROVE fresh'
  OBVIOUS
<1>1. lastOk'
  BY DEF Decide, Failed
<1>2. fresh' = (fresh \/ lastOk')
  BY DEF Decide, Refresh
<1> QED BY <1>1, <1>2

LEMMA OnlyDecide == Next /\ pc' \in {"restarting", "rebooting"} /\ pc' # pc => Decide
<1> SUFFICES ASSUME Next, pc' \in {"restarting", "rebooting"}, pc' # pc PROVE Decide
  OBVIOUS
<1> USE DEF Failed, Enter, StartContainers, AfterContainers
<1>1. ~(Turn \/ FirstRefresh \/ EndUpdate \/ EndRequest)
  BY DEF Turn, FirstRefresh, EndUpdate, EndRequest
<1>2. ~(Install \/ FailInstall \/ BreakInstall \/ Prune)
  BY DEF Install, FailInstall, BreakInstall, Prune
<1>3. ~(EndRestart \/ EndLastRefresh \/ EndReboot \/ FailOperation \/ Finish)
  BY DEF EndRestart, EndLastRefresh, EndReboot, FailOperation, Finish
<1>4. ~Others
  BY DEF Others, OthersOperate, OthersRefresh, Unload, Load
<1> QED BY <1>1, <1>2, <1>3, <1>4 DEF Next, Pass

\* A reboot or a restart of services is never decided on data from before the
\* updates the pass has made, as long as the entry stays loaded.
THEOREM DecisionsAreFresh == Spec => DecidedOnFreshData
<1> DEFINE A == pc' \in {"restarting", "rebooting"} /\ pc' # pc => fresh' \/ orphan
<1>1. [Next]_vars => [A]_vars
  BY DecideFresh, OnlyDecide
<1> QED BY <1>1, PTL DEF Spec, DecidedOnFreshData
=============================================================================
