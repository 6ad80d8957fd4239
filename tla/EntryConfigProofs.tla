-------------------------- MODULE EntryConfigProofs --------------------------
(***************************************************************************)
(* Theorems about EntryConfig, for any number of entries, servers, keys,   *)
(* flows and connections.                                                  *)
(***************************************************************************)
EXTENDS EntryConfig, TLAPS

(***************************************************************************)
(* The invariant.                                                          *)
(***************************************************************************)

\* A flow is about an entry, which a new server's does not have yet; only that
\* flow can create it.
Flowing(f) ==
    /\ f \in Opened =>
         /\ form[f].entry \in Entries
         /\ form[f].kind = "user" <=> form[f].entry \notin Existing
         /\ form[f].kind = "user" =>
              \A g \in Opened \ {f} : form[g].entry # form[f].entry
    /\ f \in Validating => form[f].login \in Logins

\* What a form's connection test demands, and what it has seen.
Demanding(f) ==
    /\ f \in Validating =>
         /\ form[f].required \in {form[f].offered, form[f].pinned}
         /\ form[f].required = NoKey => form[f].pinned = NoKey
    /\ form[f].at = "test" =>
         /\ form[f].seen \in Keys
         /\ form[f].required \in {NoKey, form[f].seen}

\* A connection is one of an entry that exists; one that will pin a key goes to
\* the address of the entry, as long as that has no key.
Linked(l) ==
    /\ link[l].entry = NoEntry => ~link[l].first
    /\ link[l].entry # NoEntry =>
         /\ link[l].entry \in Existing
         /\ link[l].login \in Logins
         /\ key[link[l].entry] = NoKey => link[l].login = login[link[l].entry]

\* The first refresh of a setup has one connection.
FirstRefresh(l) ==
    link[l].first =>
        /\ setup[link[l].entry] = "refresh"
        /\ \A m \in Links \ {l} : link[m].first => link[m].entry # link[l].entry

\* An entry that does not exist is not set up; the copy of the options is not
\* newer than they are.
SetUp(e) ==
    /\ e \notin Existing => setup[e] = "off" /\ key[e] = NoKey
    /\ snapshot[e] <= options[e]
    /\ setup[e] \in {"refresh", "inventory"} =>
         \/ interval[e] = options[e]
         \/ e \in missed /\ (flowReloads => reload[e])
    /\ setup[e] = "loaded" /\ ~reload[e] =>
         interval[e] = options[e] \/ (~flowReloads /\ e \in missed)

\* The check for a server that is configured twice holds on until the form is
\* stored, unless another is stored meanwhile.
Reserved ==
    crossed \/ \A f \in Validating : ~Taken(f, form[f].login)

EntryInv ==
    /\ TypeOK
    /\ \A f \in Forms : Flowing(f)
    /\ \A f \in Forms : Demanding(f)
    /\ \A l \in Links : Linked(l) /\ FirstRefresh(l)
    /\ \A e \in Entries : SetUp(e)
    /\ Reserved

(***************************************************************************)
(* Types.                                                                  *)
(***************************************************************************)
FormStates == [
    kind : Kinds, entry : Entries \cup {NoEntry},
    at : {"idle", "shown", "connect", "fetch", "test", "over"},
    login : Logins \cup {NoLogin}, pinned : Keys \cup {NoKey},
    required : Keys \cup {NoKey}, offered : Keys \cup {NoKey},
    seen : Keys \cup {NoKey}]
LinkStates == [entry : Entries \cup {NoEntry}, login : Logins \cup {NoLogin},
               key : Keys \cup {NoKey}, first : BOOLEAN]

LEMMA LoginsAreOfHosts == \A l \in Logins : HostOf(l) \in Hosts
BY DEF Logins, HostOf

LEMMA NewTypes == NewForm \in FormStates /\ Over \in FormStates /\ NewLink \in LinkStates
BY DEF NewForm, Over, NewLink, FormStates, LinkStates, Kinds

LEMMA ShownType ==
    ASSUME TypeOK, NEW f \in Forms, NEW k \in Keys \cup {NoKey}
    PROVE  /\ Shown(f, k) \in FormStates
           /\ Shown(f, k).kind = form[f].kind /\ Shown(f, k).entry = form[f].entry
           /\ Shown(f, k).at = "shown"
<1>1. form[f] \in FormStates
  BY DEF TypeOK, FormStates
<1> DEFINE h == IF form[f].kind = "user" THEN form[f].login ELSE NoLogin
           r == [NewForm EXCEPT !.kind = form[f].kind, !.entry = form[f].entry, !.at = "shown"]
<1>2. h \in Logins \cup {NoLogin}
  BY <1>1 DEF FormStates
<1>3. /\ r \in FormStates /\ r.kind = form[f].kind /\ r.entry = form[f].entry
      /\ r.at = "shown"
  <2>1. form[f].kind \in Kinds /\ form[f].entry \in Entries \cup {NoEntry}
    BY <1>1 DEF FormStates
  <2> QED BY <2>1, NewTypes DEF FormStates, NewForm
<1>4. Shown(f, k) = [r EXCEPT !.login = h, !.offered = k]
  BY DEF Shown
<1> HIDE DEF h, r
<1> QED BY <1>2, <1>3, <1>4 DEF FormStates

\* What a step makes of the form it is about.
Moved(f, r) == r \in FormStates /\ form' = [form EXCEPT ![f] = r]

LEMMA OpenMoves ==
    ASSUME TypeOK, NEW f \in Forms, NEW kind \in Kinds, NEW e \in Entries, Open(f, kind, e)
    PROVE  \E r : /\ Moved(f, r) /\ r.kind = kind /\ r.entry = e /\ r.at = "shown"
<1> DEFINE r == [NewForm EXCEPT !.kind = kind, !.entry = e, !.at = "shown"]
<1>1. r \in FormStates /\ r.kind = kind /\ r.entry = e /\ r.at = "shown"
  BY NewTypes DEF FormStates, NewForm
<1>2. form' = [form EXCEPT ![f] = r]
  BY DEF Open
<1> HIDE DEF r
<1> QED BY <1>1, <1>2 DEF Moved

LEMMA SubmitMoves ==
    ASSUME TypeOK, NEW f \in Forms, NEW h \in Logins, NEW accept \in BOOLEAN, Submit(f, h, accept),
           form[f].entry \in Entries
    PROVE  \E r : /\ Moved(f, r) /\ r.at = "connect" /\ r.login = h
                  /\ r.kind = form[f].kind /\ r.entry = form[f].entry
                  /\ r.offered = form[f].offered
                  /\ r.required = IF accept THEN r.offered ELSE r.pinned
<1> DEFINE pinned == IF form[f].kind = "user" THEN NoKey ELSE key[form[f].entry]
           r == [form[f] EXCEPT !.at = "connect", !.login = h, !.pinned = pinned,
                                !.required = Required(f, pinned, accept)]
<1>1. form[f] \in FormStates /\ pinned \in Keys \cup {NoKey}
  BY DEF TypeOK, FormStates
<1>2. Required(f, pinned, accept) = IF accept THEN form[f].offered ELSE pinned
  BY DEF Required
<1> HIDE DEF pinned
<1>3. /\ r \in FormStates /\ r.at = "connect" /\ r.login = h
      /\ r.kind = form[f].kind /\ r.entry = form[f].entry /\ r.offered = form[f].offered
      /\ r.required = IF accept THEN r.offered ELSE r.pinned
  BY <1>1, <1>2 DEF FormStates
<1>4. form' = [form EXCEPT ![f] = r]
  BY DEF Submit, pinned
<1> HIDE DEF r
<1> QED BY <1>3, <1>4 DEF Moved

LEMMA TestMoves ==
    ASSUME TypeOK, NEW f \in Forms, ConnectTest(f), form[f].login \in Logins
    PROVE  \E r : /\ Moved(f, r) /\ r.at \in {"fetch", "test"}
                  /\ r.kind = form[f].kind /\ r.entry = form[f].entry /\ r.login = form[f].login
                  /\ r.offered = form[f].offered /\ r.required = form[f].required
                  /\ r.pinned = form[f].pinned
                  /\ r.at = "test" => r.seen \in Keys /\ r.required \in {NoKey, r.seen}
<1> DEFINE h == form[f].login
           passed == [form[f] EXCEPT !.at = "test", !.seen = serves[HostOf(h)]]
           failed == [form[f] EXCEPT !.at = "fetch"]
<1>1. form[f] \in FormStates /\ serves[HostOf(h)] \in Keys
  BY LoginsAreOfHosts DEF TypeOK, FormStates
<1>2. CASE Trusts(form[f].required, h)
  <2>1. form' = [form EXCEPT ![f] = passed]
    BY <1>2 DEF ConnectTest
  <2>2. /\ passed \in FormStates /\ passed.at = "test" /\ passed.seen = serves[HostOf(h)]
        /\ passed.kind = form[f].kind /\ passed.entry = form[f].entry
        /\ passed.login = form[f].login /\ passed.offered = form[f].offered
        /\ passed.required = form[f].required /\ passed.pinned = form[f].pinned
    BY <1>1 DEF FormStates
  <2>3. form[f].required \in {NoKey, serves[HostOf(h)]}
    BY <1>2 DEF Trusts
  <2> HIDE DEF passed
  <2> QED BY <1>1, <2>1, <2>2, <2>3 DEF Moved
<1>3. CASE ~Trusts(form[f].required, h)
  <2>1. form' = [form EXCEPT ![f] = failed]
    BY <1>3 DEF ConnectTest
  <2>2. /\ failed \in FormStates /\ failed.at = "fetch"
        /\ failed.kind = form[f].kind /\ failed.entry = form[f].entry
        /\ failed.login = form[f].login /\ failed.offered = form[f].offered
        /\ failed.required = form[f].required /\ failed.pinned = form[f].pinned
    BY <1>1 DEF FormStates
  <2> HIDE DEF failed
  <2> QED BY <2>1, <2>2 DEF Moved
<1> QED BY <1>2, <1>3

\* The connection test ends without success, and the form is shown again.
LEMMA BackMoves ==
    ASSUME TypeOK, NEW f \in Forms, FetchKey(f) \/ FailTest(f),
           f \in Validating => form[f].login \in Logins
    PROVE  \E r : /\ Moved(f, r) /\ r.at = "shown" /\ f \in Opened
                  /\ r.kind = form[f].kind /\ r.entry = form[f].entry
<1>1. f \in Validating
  BY DEF FetchKey, FailTest, Validating
<1>2. PICK k \in Keys \cup {NoKey} : form' = [form EXCEPT ![f] = Shown(f, k)]
  <2>1. serves[HostOf(form[f].login)] \in Keys /\ form[f].offered \in Keys \cup {NoKey}
    BY <1>1, LoginsAreOfHosts DEF TypeOK
  <2> QED BY <2>1 DEF FetchKey, FailTest, Offer
<1> QED BY <1>1, <1>2, ShownType DEF Moved, Opened

LEMMA OverMoves ==
    ASSUME NEW f \in Forms, AbortNew(f) \/ Abandon(f) \/ Store(f)
    PROVE  Moved(f, Over) /\ Over.at = "over"
BY NewTypes DEF AbortNew, Abandon, Store, Moved, Over, NewForm

LEMMA RejectMoves ==
    ASSUME TypeOK, NEW l \in Links, Reject(l), link[l].entry \in Entries
    PROVE  \/ UNCHANGED form
           \/ \E f \in Forms : \E r :
                /\ Moved(f, r) /\ form[f].at = "idle"
                /\ r.kind = "reauth" /\ r.entry = link[l].entry /\ r.at = "shown"
<1> DEFINE r == [NewForm EXCEPT !.kind = "reauth", !.entry = link[l].entry, !.at = "shown"]
<1>1. r \in FormStates /\ r.kind = "reauth" /\ r.entry = link[l].entry /\ r.at = "shown"
  BY NewTypes DEF FormStates, NewForm, Kinds
<1>2. UNCHANGED form \/ \E f \in Forms : form[f].at = "idle" /\ form' = [form EXCEPT ![f] = r]
  BY DEF Reject
<1> HIDE DEF r
<1> QED BY <1>1, <1>2 DEF Moved

LEMMA FormType ==
    ASSUME TypeOK, NEW f \in Forms, NEW r, Moved(f, r)
    PROVE  form' \in [Forms -> FormStates]
BY DEF TypeOK, Moved, FormStates

LEMMA LinkType ==
    ASSUME TypeOK, NEW l \in Links, NEW r \in LinkStates, link' = [link EXCEPT ![l] = r]
    PROVE  link' \in [Links -> LinkStates]
BY DEF TypeOK, LinkStates

LEMMA ReloadType ==
    ASSUME TypeOK, NEW e \in Entries, NEW fromOptionsFlow \in BOOLEAN, Notify(e, fromOptionsFlow)
    PROVE  reload' \in [Entries -> BOOLEAN]
BY DEF TypeOK, Notify

LEMMA GiveUpType ==
    ASSUME TypeOK, NEW l \in Links, GiveUp(l)
    PROVE  /\ link' \in [Links -> LinkStates]
           /\ setup' \in [Entries -> {"off", "refresh", "inventory", "loaded"}]
<1>1. link' \in [Links -> LinkStates]
  BY NewTypes, LinkType DEF GiveUp
<1>2. setup' \in [Entries -> {"off", "refresh", "inventory", "loaded"}]
  BY DEF GiveUp, TypeOK
<1> QED BY <1>1, <1>2

LEMMA TypesInitially == Init => TypeOK
<1> SUFFICES ASSUME Init PROVE TypeOK
  OBVIOUS
<1>1. form \in [Forms -> FormStates] /\ link \in [Links -> LinkStates]
  BY NewTypes DEF Init
<1>2. /\ options \in [Entries -> 0 .. MaxOptions] /\ interval \in [Entries -> 0 .. MaxOptions]
      /\ snapshot \in [Entries -> 0 .. MaxOptions] /\ rekeys \in 0 .. MaxRekeys
  BY EntryBoundAssumption DEF Init
<1>3. crossed \in BOOLEAN /\ reload \in [Entries -> BOOLEAN] /\ flowReloads \in BOOLEAN
  BY Zenon DEF Init
<1>4. /\ login \in [Entries -> Logins \cup {NoLogin}] /\ key \in [Entries -> Keys \cup {NoKey}]
      /\ serves \in [Hosts -> Keys] /\ missed \subseteq Entries
      /\ setup \in [Entries -> {"off", "refresh", "inventory", "loaded"}]
  BY DEF Init
<1>5. origin \in [Entries -> Hosts \cup {NoHost}]
  <2>1. \A e \in Entries : key[e] # NoKey => HostOf(login[e]) \in Hosts
    BY <1>4, LoginsAreOfHosts DEF Init, Existing
  <2> QED BY <2>1 DEF Init
<1> QED BY <1>1, <1>2, <1>3, <1>4, <1>5 DEF TypeOK, FormStates, LinkStates

\* The steps of the entries, ...
LEMMA TypeOfEntrySteps ==
    ASSUME EntryInv, NEW e \in Entries, FinishSetup(e) \/ Unload(e) \/ ChangeOptions(e)
    PROVE  TypeOK'
<1>0. TypeOK
  BY DEF EntryInv
<1> USE EntryBoundAssumption
<1>1. ASSUME FinishSetup(e) \/ Unload(e) PROVE TypeOK'
  <2>1. /\ UNCHANGED <<servers, entries, form, link, history>>
        /\ interval' \in [Entries -> 0 .. MaxOptions] /\ snapshot' \in [Entries -> 0 .. MaxOptions]
    BY <1>0, <1>1 DEF FinishSetup, Unload, TypeOK
  <2>2. /\ setup' \in [Entries -> {"off", "refresh", "inventory", "loaded"}]
        /\ reload' \in [Entries -> BOOLEAN]
    BY <1>0, <1>1 DEF FinishSetup, Unload, TypeOK
  <2> QED BY <1>0, <2>1, <2>2 DEF TypeOK, servers, entries, history
<1>2. ASSUME ChangeOptions(e) PROVE TypeOK'
  <2>1. options[e] < MaxOptions /\ options[e] \in 0 .. MaxOptions
    BY <1>0, <1>2 DEF ChangeOptions, TypeOK
  <2>2. options' \in [Entries -> 0 .. MaxOptions] /\ missed' \subseteq Entries
    BY <1>0, <1>2, <2>1 DEF ChangeOptions, TypeOK
  <2>3. reload' \in [Entries -> BOOLEAN]
    BY <1>0, <1>2, ReloadType DEF ChangeOptions
  <2> QED BY <1>0, <1>2, <2>2, <2>3 DEF ChangeOptions, TypeOK, servers
<1> QED BY <1>1, <1>2

\* ... of their connections, ...
LEMMA TypeOfLinkSteps ==
    ASSUME EntryInv, NEW l \in Links,
           \/ \E e \in Entries : StartSetup(l, e) \/ StartPoll(l, e)
           \/ Reach(l) \/ Miss(l) \/ Reject(l)
    PROVE  TypeOK'
<1>0. TypeOK /\ Linked(l)
  BY DEF EntryInv
<1> USE EntryBoundAssumption
<1>1. ASSUME NEW e \in Existing, NEW first \in BOOLEAN, Connect(l, e, first)
      PROVE  link' \in [Links -> LinkStates]
  <2>1. [entry |-> e, login |-> login[e], key |-> key[e], first |-> first] \in LinkStates
    BY <1>0 DEF LinkStates, TypeOK, Existing
  <2> QED BY <1>0, <1>1, <2>1, LinkType DEF Connect
<1>2. ASSUME NEW e \in Entries, StartSetup(l, e) PROVE TypeOK'
  <2>1. link' \in [Links -> LinkStates]
    BY <1>2, <1>1 DEF StartSetup
  <2>2. /\ setup' \in [Entries -> {"off", "refresh", "inventory", "loaded"}]
        /\ interval' \in [Entries -> 0 .. MaxOptions] /\ missed' \subseteq Entries
    BY <1>0, <1>2 DEF StartSetup, TypeOK
  <2> QED BY <1>0, <1>2, <2>1, <2>2 DEF StartSetup, TypeOK, servers, entries, LinkStates
<1>3. ASSUME NEW e \in Entries, StartPoll(l, e) PROVE TypeOK'
  <2>1. e \in Existing
    BY <1>3 DEF StartPoll, EntryInv, SetUp
  <2>2. link' \in [Links -> LinkStates]
    BY <1>3, <2>1, <1>1 DEF StartPoll
  <2> QED BY <1>0, <1>3, <2>2 DEF StartPoll, TypeOK, servers, entries, lifecycle, history, LinkStates
<1>4. ASSUME Reach(l) PROVE TypeOK'
  <2>1. /\ link[l].entry \in Entries /\ HostOf(link[l].login) \in Hosts
        /\ serves[HostOf(link[l].login)] \in Keys
    BY <1>0, <1>4, LoginsAreOfHosts DEF Reach, Linked, Existing, TypeOK
  <2>2. link' \in [Links -> LinkStates]
    BY <1>0, <1>4, NewTypes, LinkType DEF Reach
  <2>3. /\ key' \in [Entries -> Keys \cup {NoKey}] /\ origin' \in [Entries -> Hosts \cup {NoHost}]
    BY <1>0, <1>4, <2>1 DEF Reach, TypeOK
  <2>5. setup' \in [Entries -> {"off", "refresh", "inventory", "loaded"}]
    BY <1>0, <1>4, <2>1 DEF Reach, TypeOK
  <2>4. reload' \in [Entries -> BOOLEAN]
    <3>1. CASE Notify(link[l].entry, FALSE)
      BY <1>0, <2>1, <3>1, ReloadType
    <3>2. CASE UNCHANGED reload
      BY <1>0, <3>2 DEF TypeOK
    <3> QED BY <1>4, <3>1, <3>2 DEF Reach
  <2> QED BY <1>0, <1>4, <2>2, <2>3, <2>4, <2>5 DEF Reach, TypeOK, servers, history, LinkStates
<1>5. ASSUME Miss(l) \/ Reject(l) PROVE TypeOK'
  <2>1. link[l].entry \in Entries
    BY <1>0, <1>5 DEF Miss, Reject, Free, Linked, Existing
  <2>2. form' \in [Forms -> FormStates]
    <3>1. CASE UNCHANGED form
      BY <1>0, <3>1 DEF TypeOK, FormStates
    <3> QED BY <1>0, <1>5, <2>1, <3>1, RejectMoves, FormType DEF Miss
  <2> QED BY <1>0, <1>5, <2>2, GiveUpType DEF Miss, Reject, TypeOK, servers, entries, history,
             FormStates, LinkStates
<1> QED BY <1>2, <1>3, <1>4, <1>5

\* ... and of the flows.
LEMMA TypeOfFlowSteps ==
    ASSUME EntryInv, NEW f \in Forms, Flow(f)
    PROVE  TypeOK'
<1>0. TypeOK /\ Flowing(f) /\ Demanding(f)
  BY DEF EntryInv
<1>1. form' \in [Forms -> FormStates]
  <2>1. ASSUME NEW kind \in Kinds, NEW e \in Entries, Open(f, kind, e)
        PROVE  form' \in [Forms -> FormStates]
    BY <1>0, <2>1, OpenMoves, FormType
  <2>2. ASSUME NEW h \in Logins, NEW accept \in BOOLEAN, Submit(f, h, accept)
        PROVE  form' \in [Forms -> FormStates]
    <3>1. form[f].entry \in Entries
      BY <1>0, <2>2 DEF Flowing, Submit, Opened
    <3> QED BY <1>0, <2>2, <3>1, SubmitMoves, FormType
  <2>3. CASE AbortNew(f) \/ Abandon(f) \/ Store(f)
    BY <1>0, <2>3, OverMoves, FormType
  <2>4. CASE ConnectTest(f)
    <3>1. form[f].login \in Logins
      BY <1>0, <2>4 DEF Flowing, ConnectTest, Validating
    <3> QED BY <1>0, <2>4, <3>1, TestMoves, FormType
  <2>5. CASE FetchKey(f) \/ FailTest(f)
    BY <1>0, <2>5, BackMoves, FormType DEF Flowing
  <2> QED BY <2>1, <2>2, <2>3, <2>4, <2>5 DEF Flow
<1>2. CASE Store(f)
  <2>1. /\ form[f].entry \in Entries /\ form[f].login \in Logins /\ form[f].seen \in Keys
        /\ HostOf(form[f].login) \in Hosts
    BY <1>0, <1>2, LoginsAreOfHosts DEF Store, Flowing, Demanding, Opened, Validating
  <2>2. /\ login' \in [Entries -> Logins \cup {NoLogin}] /\ key' \in [Entries -> Keys \cup {NoKey}]
        /\ origin' \in [Entries -> Hosts \cup {NoHost}]
    BY <1>0, <1>2, <2>1 DEF Store, TypeOK
  <2>3. reload' \in [Entries -> BOOLEAN] /\ crossed' \in BOOLEAN
    BY <1>0, <1>2 DEF Store, TypeOK
  <2> QED BY <1>0, <1>1, <1>2, <2>2, <2>3 DEF Store, TypeOK, servers, FormStates
<1>3. CASE ~Store(f)
  <2>1. UNCHANGED <<servers, entries, lifecycle, link, history>>
    BY <1>3 DEF Flow, Open, Submit, AbortNew, Abandon, ConnectTest, FetchKey, FailTest
  <2> QED BY <1>0, <1>1, <2>1 DEF TypeOK, servers, entries, lifecycle, history, FormStates
<1> QED BY <1>2, <1>3

LEMMA TypeStep == EntryInv /\ [Next]_vars => TypeOK'
<1> SUFFICES ASSUME EntryInv, [Next]_vars PROVE TypeOK'
  OBVIOUS
<1>0. TypeOK
  BY DEF EntryInv
<1>1. ASSUME NEW h \in Hosts, Rekey(h) PROVE TypeOK'
  <2>1. serves' \in [Hosts -> Keys] /\ rekeys' \in 0 .. MaxRekeys
    BY <1>0, <1>1, EntryBoundAssumption DEF Rekey, TypeOK
  <2> QED BY <1>0, <1>1, <2>1 DEF Rekey, TypeOK, entries, lifecycle, history
<1>2. CASE UNCHANGED vars
  BY <1>0, <1>2 DEF vars, TypeOK, servers, entries, lifecycle, history
<1> QED BY <1>1, <1>2, TypeOfEntrySteps, TypeOfLinkSteps, TypeOfFlowSteps DEF Next

(***************************************************************************)
(* The flows.                                                              *)
(***************************************************************************)
OpenStates == {"shown", "connect", "fetch", "test"}

LEMMA MovedForms ==
    ASSUME TypeOK, NEW f \in Forms, NEW r, Moved(f, r)
    PROVE  /\ form'[f] = r /\ \A g \in Forms \ {f} : form'[g] = form[g]
           /\ \A g \in Forms : g \in Opened' <=> form'[g].at \in OpenStates
           /\ \A g \in Forms : g \in Opened <=> form[g].at \in OpenStates
           /\ \A g \in Forms : g \in Validating' <=> form'[g].at \in OpenStates \ {"shown"}
           /\ \A g \in Forms : g \in Validating <=> form[g].at \in OpenStates \ {"shown"}
           /\ Opened \subseteq Forms /\ Opened' \subseteq Forms
BY DEF Moved, TypeOK, Opened, Validating, OpenStates

\* A form is about the entry it was about, or about one it may be opened for.
LEMMA FlowingMoved ==
    ASSUME TypeOK, \A g \in Forms : Flowing(g), NEW f \in Forms, NEW r, Moved(f, r),
           UNCHANGED login,
           r.at \in OpenStates =>
             /\ r.entry \in Entries
             /\ r.kind = "user" <=> r.entry \notin Existing
             /\ r.kind = "user" => \A g \in Opened \ {f} : form[g].entry # r.entry,
           r.at \in OpenStates \ {"shown"} => r.login \in Logins
    PROVE  \A g \in Forms : Flowing(g)'
<1> SUFFICES ASSUME NEW g \in Forms PROVE Flowing(g)'
  OBVIOUS
<1>0. Existing' = Existing
  BY DEF Existing
<1>1. CASE g = f
  <2>1. /\ form'[g] = r /\ \A h \in Opened' \ {g} : h \in Opened \ {f} /\ form'[h] = form[h]
        /\ g \in Opened' => r.at \in OpenStates
        /\ g \in Validating' => r.at \in OpenStates \ {"shown"}
    BY <1>1, MovedForms
  <2> QED BY <1>0, <2>1 DEF Flowing
<1>2. CASE g # f
  <2>0. /\ form'[g] = form[g] /\ (g \in Opened' <=> g \in Opened)
        /\ (g \in Validating' <=> g \in Validating)
    BY <1>2, MovedForms
  <2>1. ASSUME g \in Opened, form[g].kind = "user", f \in Opened'
        PROVE  r.entry # form[g].entry
    BY <1>2, <2>1, MovedForms DEF Flowing
  <2>2. ASSUME g \in Opened, form[g].kind = "user", NEW h \in Opened' \ {g}
        PROVE  form'[h].entry # form[g].entry
    <3>1. CASE h = f
      BY <2>1, <2>2, <3>1, MovedForms
    <3>2. CASE h # f
      <4>1. h \in Opened \ {g} /\ form'[h] = form[h]
        BY <2>2, <3>2, MovedForms
      <4> QED BY <2>2, <4>1 DEF Flowing
    <3> QED BY <3>1, <3>2
  <2> QED BY <1>0, <2>0, <2>2 DEF Flowing
<1> QED BY <1>1, <1>2

LEMMA FlowingStored ==
    ASSUME EntryInv, NEW f \in Forms, Store(f)
    PROVE  \A g \in Forms : Flowing(g)'
<1> DEFINE e == form[f].entry
<1>0. TypeOK /\ \A g \in Forms : Flowing(g)
  BY DEF EntryInv
<1>1. f \in Opened /\ f \in Validating /\ Moved(f, Over) /\ Over.at = "over"
  BY OverMoves DEF Store, Opened, Validating
<1>2. e \in Entries /\ form[f].login \in Logins /\ NoLogin \notin Logins
  BY <1>0, <1>1, EntryConstantAssumption DEF Flowing
<1>3. Existing' = Existing \cup {e}
  BY <1>0, <1>2 DEF Store, Existing, TypeOK
<1>4. ASSUME NEW g \in Forms \ {f}, g \in Opened PROVE form[g].kind = "user" => form[g].entry # e
  BY <1>0, <1>1, <1>4 DEF Flowing
<1>5. \A g \in Forms : g \in Opened' => g # f /\ g \in Opened /\ form'[g] = form[g]
  BY <1>0, <1>1, MovedForms DEF OpenStates
<1>6. \A g \in Forms : g \in Validating' => g # f /\ g \in Validating /\ form'[g] = form[g]
  BY <1>0, <1>1, MovedForms DEF OpenStates
<1>7. Opened \subseteq Forms /\ Opened' \subseteq Forms
  BY <1>0, <1>1, MovedForms
<1> SUFFICES ASSUME NEW g \in Forms PROVE Flowing(g)'
  OBVIOUS
<1>8. g \in Opened' =>
        /\ form'[g].entry \in Entries
        /\ (form'[g].kind = "user") <=> (form'[g].entry \notin Existing')
  BY <1>0, <1>3, <1>4, <1>5 DEF Flowing
<1>9. ASSUME g \in Opened', form'[g].kind = "user", NEW h \in Opened' \ {g}
      PROVE  form'[h].entry # form'[g].entry
  <2>1. /\ g \in Opened /\ form'[g] = form[g] /\ h \in Opened \ {g} /\ form'[h] = form[h]
    BY <1>5, <1>7, <1>9
  <2> QED BY <1>0, <1>9, <2>1 DEF Flowing
<1>10. g \in Validating' => form'[g].login \in Logins
  BY <1>0, <1>6 DEF Flowing
<1>11. g \in Opened' /\ form'[g].kind = "user" =>
          \A h \in Opened' \ {g} : form'[h].entry # form'[g].entry
  BY <1>9
<1> QED BY ONLY <1>8, <1>10, <1>11 DEF Flowing

\* What a step leaves of the flows, if it is not one of theirs.
LEMMA OtherSteps ==
    ASSUME EntryInv, [Next]_vars, ~\E f \in Forms : Flow(f)
    PROVE  /\ UNCHANGED login
           /\ \/ UNCHANGED form
              \/ \E f \in Forms : \E r : /\ Moved(f, r) /\ form[f].at = "idle"
                                         /\ r.kind = "reauth" /\ r.entry \in Existing /\ r.at = "shown"
<1>1. ASSUME NEW l \in Links, Reject(l)
      PROVE  \/ UNCHANGED form
             \/ \E f \in Forms : \E r : /\ Moved(f, r) /\ form[f].at = "idle"
                                        /\ r.kind = "reauth" /\ r.entry \in Existing /\ r.at = "shown"
  <2>1. link[l].entry \in Existing /\ link[l].entry \in Entries
    BY <1>1 DEF Reject, EntryInv, Linked, Free, Existing
  <2> QED BY <1>1, <2>1, RejectMoves DEF EntryInv
<1>2. ASSUME NEW l \in Links, Reject(l) PROVE UNCHANGED login
  BY <1>2 DEF Reject, entries
<1> QED BY <1>1, <1>2 DEF Next, vars, servers, entries, FinishSetup, Unload, ChangeOptions, StartSetup,
           StartPoll, Reach, Miss, Rekey

LEMMA FlowingStep == EntryInv /\ [Next]_vars => \A g \in Forms : Flowing(g)'
<1> SUFFICES ASSUME EntryInv, [Next]_vars PROVE \A g \in Forms : Flowing(g)'
  OBVIOUS
<1>0. TypeOK /\ \A g \in Forms : Flowing(g)
  BY DEF EntryInv
<1>1. ASSUME NEW f \in Forms, NEW kind \in Kinds, NEW e \in Entries, Open(f, kind, e)
      PROVE  \A g \in Forms : Flowing(g)'
  <2>1. PICK r : Moved(f, r) /\ r.kind = kind /\ r.entry = e /\ r.at = "shown"
    BY <1>0, <1>1, OpenMoves
  <2>2. /\ kind = "user" <=> e \notin Existing
        /\ kind = "user" => \A g \in Opened : form[g].entry # e
        /\ UNCHANGED login
    BY <1>1 DEF Open, entries
  <2> QED BY <1>0, <2>1, <2>2, FlowingMoved
<1>2. ASSUME NEW f \in Forms, NEW r, Moved(f, r), UNCHANGED login, f \in Opened,
             r.kind = form[f].kind, r.entry = form[f].entry,
             r.at \in OpenStates \ {"shown"} => r.login \in Logins
      PROVE  \A g \in Forms : Flowing(g)'
  BY <1>0, <1>2, FlowingMoved DEF Flowing
<1>3. ASSUME NEW f \in Forms, NEW h \in Logins, NEW accept \in BOOLEAN, Submit(f, h, accept)
      PROVE  \A g \in Forms : Flowing(g)'
  <2>1. f \in Opened /\ UNCHANGED login
    BY <1>3 DEF Submit, Opened, entries
  <2>2. form[f].entry \in Entries
    BY <1>0, <2>1 DEF Flowing
  <2> QED BY <1>0, <1>2, <1>3, <2>1, <2>2, SubmitMoves
<1>4. ASSUME NEW f \in Forms, ConnectTest(f) PROVE \A g \in Forms : Flowing(g)'
  <2>1. f \in Opened /\ f \in Validating /\ UNCHANGED login
    BY <1>4 DEF ConnectTest, Opened, Validating, entries
  <2>2. form[f].login \in Logins
    BY <1>0, <2>1 DEF Flowing
  <2> QED BY <1>0, <1>2, <1>4, <2>1, <2>2, TestMoves
<1>5. ASSUME NEW f \in Forms, FetchKey(f) \/ FailTest(f) PROVE \A g \in Forms : Flowing(g)'
  <2>1. UNCHANGED login
    BY <1>5 DEF FetchKey, FailTest, entries
  <2>2. f \in Validating => form[f].login \in Logins
    BY <1>0 DEF Flowing
  <2> QED BY <1>0, <1>2, <1>5, <2>1, <2>2, BackMoves
<1>6. ASSUME NEW f \in Forms, AbortNew(f) \/ Abandon(f) PROVE \A g \in Forms : Flowing(g)'
  <2>1. Moved(f, Over) /\ Over.at = "over" /\ UNCHANGED login
    BY <1>6, OverMoves DEF AbortNew, Abandon, entries
  <2> QED BY <1>0, <2>1, FlowingMoved DEF OpenStates
<1>7. CASE ~\E f \in Forms : Flow(f)
  <2>1. CASE UNCHANGED <<form, login>>
    BY <1>0, <2>1 DEF Flowing, Opened, Validating, Existing
  <2>2. ASSUME NEW f \in Forms, NEW r, Moved(f, r), UNCHANGED login,
               r.kind = "reauth", r.entry \in Existing, r.at = "shown"
        PROVE  \A g \in Forms : Flowing(g)'
    BY <1>0, <2>2, FlowingMoved DEF Existing, OpenStates
  <2> QED BY <1>7, <2>1, <2>2, OtherSteps
<1> QED BY <1>1, <1>3, <1>4, <1>5, <1>6, <1>7, FlowingStored DEF Flow

LEMMA DemandingStep == EntryInv /\ [Next]_vars => \A g \in Forms : Demanding(g)'
<1> SUFFICES ASSUME EntryInv, [Next]_vars PROVE \A g \in Forms : Demanding(g)'
  OBVIOUS
<1>0. TypeOK /\ \A g \in Forms : Flowing(g) /\ Demanding(g)
  BY DEF EntryInv
<1>1. ASSUME NEW f \in Forms, NEW r, Moved(f, r),
             r.at \in OpenStates \ {"shown"} =>
               /\ r.required \in {r.offered, r.pinned}
               /\ r.required = NoKey => r.pinned = NoKey,
             r.at = "test" => r.seen \in Keys /\ r.required \in {NoKey, r.seen}
      PROVE  \A g \in Forms : Demanding(g)'
  BY <1>0, <1>1, MovedForms DEF Demanding
<1>2. ASSUME NEW f \in Forms, NEW h \in Logins, NEW accept \in BOOLEAN, Submit(f, h, accept)
      PROVE  \A g \in Forms : Demanding(g)'
  <2>1. form[f].entry \in Entries
    BY <1>0, <1>2 DEF Submit, Opened, Flowing
  <2>2. PICK r : /\ Moved(f, r) /\ r.at = "connect" /\ r.offered = form[f].offered
                 /\ r.required = IF accept THEN r.offered ELSE r.pinned
    BY <1>0, <1>2, <2>1, SubmitMoves
  <2>3. accept => r.offered # NoKey
    BY <1>2, <2>2 DEF Submit
  <2> QED BY <1>1, <2>2, <2>3
<1>3. ASSUME NEW f \in Forms, ConnectTest(f) PROVE \A g \in Forms : Demanding(g)'
  <2>1. f \in Validating
    BY <1>3 DEF ConnectTest, Validating
  <2>2. form[f].login \in Logins
    BY <1>0, <2>1 DEF Flowing
  <2>3. PICK r : /\ Moved(f, r)
                 /\ r.offered = form[f].offered /\ r.required = form[f].required
                 /\ r.pinned = form[f].pinned
                 /\ r.at = "test" => r.seen \in Keys /\ r.required \in {NoKey, r.seen}
    BY <1>0, <1>3, <2>2, TestMoves
  <2>4. /\ r.required \in {r.offered, r.pinned}
        /\ r.required = NoKey => r.pinned = NoKey
    BY <1>0, <2>1, <2>3 DEF Demanding
  <2> QED BY <1>1, <2>3, <2>4
<1>4. ASSUME NEW f \in Forms, NEW r, Moved(f, r), r.at \in {"shown", "over"}
      PROVE  \A g \in Forms : Demanding(g)'
  BY <1>1, <1>4 DEF OpenStates
<1>5. ASSUME NEW f \in Forms, FetchKey(f) \/ FailTest(f) PROVE \A g \in Forms : Demanding(g)'
  <2>1. f \in Validating => form[f].login \in Logins
    BY <1>0 DEF Flowing
  <2> QED BY <1>0, <1>4, <1>5, <2>1, BackMoves
<1>6. ASSUME NEW f \in Forms, AbortNew(f) \/ Abandon(f) \/ Store(f)
      PROVE  \A g \in Forms : Demanding(g)'
  BY <1>4, <1>6, OverMoves
<1>7. ASSUME NEW f \in Forms, NEW kind \in Kinds, NEW e \in Entries, Open(f, kind, e)
      PROVE  \A g \in Forms : Demanding(g)'
  BY <1>0, <1>4, <1>7, OpenMoves
<1>8. CASE ~\E f \in Forms : Flow(f)
  <2>1. CASE UNCHANGED form
    BY <1>0, <2>1 DEF Demanding, Validating
  <2> QED BY <1>4, <1>8, <2>1, OtherSteps
<1> QED BY <1>2, <1>3, <1>5, <1>6, <1>7, <1>8 DEF Flow

(***************************************************************************)
(* The connections.                                                        *)
(***************************************************************************)

\* What a step makes of the entries: none is lost, and one that has no key has
\* the address it had.
LEMMA EntriesKept ==
    ASSUME EntryInv, [Next]_vars, NEW e \in Existing
    PROVE  e \in Existing' /\ (key'[e] = NoKey => key[e] = NoKey /\ login'[e] = login[e])
<1>0. TypeOK /\ e \in Entries /\ NoKey \notin Keys /\ NoLogin \notin Logins
  BY EntryConstantAssumption DEF EntryInv, Existing
<1>1. ASSUME NEW f \in Forms, Store(f)
      PROVE  e \in Existing' /\ (key'[e] = NoKey => key[e] = NoKey /\ login'[e] = login[e])
  <2>1. form[f].entry \in Entries /\ form[f].login \in Logins /\ form[f].seen \in Keys
    BY <1>1 DEF Store, EntryInv, Flowing, Demanding, Opened, Validating
  <2> QED BY <1>0, <1>1, <2>1 DEF Store, TypeOK, Existing
<1>2. ASSUME NEW l \in Links, Reach(l)
      PROVE  UNCHANGED login /\ (key'[e] = NoKey => key[e] = NoKey)
  <2>1. link[l].login \in Logins /\ link[l].entry \in Entries
    BY <1>2 DEF Reach, EntryInv, Linked, Existing
  <2>2. serves[HostOf(link[l].login)] \in Keys
    BY <1>0, <2>1, LoginsAreOfHosts DEF TypeOK
  <2>3. CASE key' = [key EXCEPT ![link[l].entry] = serves[HostOf(link[l].login)]]
    <3>1. key'[e] \in {key[e], serves[HostOf(link[l].login)]}
      BY <1>0, <2>1, <2>3 DEF TypeOK
    <3> QED BY <1>0, <1>2, <2>2, <3>1 DEF Reach
  <2>4. CASE UNCHANGED key
    BY <1>2, <2>4 DEF Reach
  <2> QED BY <1>2, <2>3, <2>4 DEF Reach
<1>3. ASSUME ~\E f \in Forms : Store(f), ~\E l \in Links : Reach(l)
      PROVE  UNCHANGED <<login, key>>
  BY <1>3 DEF Next, vars, entries, Flow, Open, Submit, AbortNew, Abandon, ConnectTest,
     FetchKey, FailTest, FinishSetup, Unload, ChangeOptions, StartSetup, StartPoll, Miss,
     Reject, Rekey
<1> QED BY <1>0, <1>1, <1>2, <1>3 DEF Existing

LEMMA LinkedKept ==
    ASSUME EntryInv, [Next]_vars, NEW l \in Links, link'[l] \in {link[l], NewLink}
    PROVE  Linked(l)'
<1>1. Linked(l)
  BY DEF EntryInv
<1>2. CASE link'[l] = NewLink
  BY <1>2 DEF NewLink, Linked
<1>3. CASE link'[l] = link[l]
  <2>1. CASE link[l].entry = NoEntry
    BY <1>1, <1>3, <2>1 DEF Linked
  <2>2. CASE link[l].entry # NoEntry
    <3>1. link[l].entry \in Existing
      BY <1>1, <2>2 DEF Linked
    <3> QED BY <1>1, <1>3, <3>1, EntriesKept DEF Linked
  <2> QED BY <2>1, <2>2
<1> QED BY <1>2, <1>3

LEMMA Connected ==
    ASSUME EntryInv, NEW l \in Links, NEW e \in Existing, NEW first \in BOOLEAN, Free(l),
           Connect(l, e, first), UNCHANGED <<login, key>>, [Next]_vars
    PROVE  /\ \A m \in Links : Linked(m)'
           /\ link'[l].entry = e /\ link'[l].first = first
           /\ \A m \in Links \ {l} : link'[m] = link[m]
<1> DEFINE c == [entry |-> e, login |-> login[e], key |-> key[e], first |-> first]
<1>0. e \in Entries /\ e # NoEntry /\ login[e] \in Logins
  BY EntryConstantAssumption DEF Existing, EntryInv, TypeOK
<1>1. link'[l] = c /\ \A m \in Links \ {l} : link'[m] = link[m]
  BY DEF Connect, EntryInv, TypeOK
<1>2. Linked(l)'
  BY <1>0, <1>1 DEF Linked, Existing
<1>3. \A m \in Links \ {l} : Linked(m)'
  BY <1>1, LinkedKept
<1> QED BY <1>1, <1>2, <1>3

LEMMA Freed ==
    ASSUME TypeOK, NEW l \in Links, link' = [link EXCEPT ![l] = NewLink]
    PROVE  /\ link'[l] = NewLink /\ \A m \in Links \ {l} : link'[m] = link[m]
           /\ ~link'[l].first
BY DEF TypeOK, NewLink

LEMMA LinkStep == EntryInv /\ [Next]_vars => \A l \in Links : Linked(l)' /\ FirstRefresh(l)'
<1> SUFFICES ASSUME EntryInv, [Next]_vars
             PROVE  \A l \in Links : Linked(l)' /\ FirstRefresh(l)'
  OBVIOUS
<1>0. TypeOK /\ \A l \in Links : Linked(l) /\ FirstRefresh(l)
  BY DEF EntryInv
\* A connection ends, and with it, maybe, the first refresh of its setup.
<1>1. ASSUME NEW l \in Links, link' = [link EXCEPT ![l] = NewLink],
             \A e \in Entries : setup'[e] = setup[e] \/ (link[l].first /\ e = link[l].entry)
      PROVE  \A m \in Links : Linked(m)' /\ FirstRefresh(m)'
  <2>1. \A m \in Links : Linked(m)'
    BY <1>0, <1>1, Freed, LinkedKept
  <2>2. ASSUME NEW m \in Links, link'[m].first
        PROVE  /\ setup'[link'[m].entry] = "refresh"
               /\ \A n \in Links \ {m} : link'[n].first => link'[n].entry # link'[m].entry
    <3>1. \A n \in Links : link'[n].first => n # l /\ link'[n] = link[n] /\ link[n].first
      BY <1>0, <1>1, Freed
    <3>2. m # l /\ link'[m] = link[m] /\ link[m].first
      BY <2>2, <3>1
    <3>3. link[m].entry \in Entries
      BY <1>0, <3>2 DEF Linked, Existing
    <3>4. link[l].first => link[m].entry # link[l].entry
      BY <1>0, <3>2 DEF FirstRefresh
    <3>5. setup'[link[m].entry] = setup[link[m].entry]
      BY <1>1, <3>3, <3>4
    <3>6. setup[link[m].entry] = "refresh"
      BY <1>0, <3>2 DEF FirstRefresh
    <3>7. ASSUME NEW n \in Links \ {m}, link'[n].first PROVE link'[n].entry # link'[m].entry
      BY <1>0, <3>1, <3>2, <3>7 DEF FirstRefresh
    <3> QED BY <3>2, <3>5, <3>6, <3>7
  <2> QED BY <2>1, <2>2 DEF FirstRefresh
<1>2. ASSUME NEW l \in Links, Reach(l) \/ Miss(l) \/ Reject(l)
      PROVE  \A m \in Links : Linked(m)' /\ FirstRefresh(m)'
  <2>1. link' = [link EXCEPT ![l] = NewLink]
    BY <1>2 DEF Reach, Miss, Reject, GiveUp
  <2>2. \A e \in Entries : setup'[e] = setup[e] \/ (link[l].first /\ e = link[l].entry)
    BY <1>0, <1>2 DEF Reach, Miss, Reject, GiveUp, TypeOK
  <2> QED BY <1>1, <2>1, <2>2
<1>3. ASSUME NEW l \in Links, NEW e \in Entries, StartSetup(l, e)
      PROVE  \A m \in Links : Linked(m)' /\ FirstRefresh(m)'
  <2>1. /\ e \in Existing /\ Free(l) /\ Connect(l, e, TRUE) /\ UNCHANGED <<login, key>>
        /\ setup[e] = "off" /\ setup' = [setup EXCEPT ![e] = "refresh"]
    BY <1>3 DEF StartSetup, entries
  <2>2. /\ \A m \in Links : Linked(m)'
        /\ link'[l].entry = e /\ \A m \in Links \ {l} : link'[m] = link[m]
    BY <2>1, Connected
  <2>3. \A m \in Links \ {l} : link[m].first => link[m].entry # e /\ link[m].entry \in Entries
    BY <1>0, <2>1 DEF FirstRefresh, Linked, Existing
  <2>4. setup'[e] = "refresh" /\ \A d \in Entries : d # e => setup'[d] = setup[d]
    BY <1>0, <2>1 DEF TypeOK
  <2>5. FirstRefresh(l)'
    BY <2>2, <2>3, <2>4 DEF FirstRefresh
  <2>6. \A m \in Links \ {l} : FirstRefresh(m)'
    BY <1>0, <2>2, <2>3, <2>4 DEF FirstRefresh
  <2> QED BY <2>2, <2>5, <2>6
<1>4. ASSUME NEW l \in Links, NEW e \in Entries, StartPoll(l, e)
      PROVE  \A m \in Links : Linked(m)' /\ FirstRefresh(m)'
  <2>1. e \in Existing
    BY <1>4 DEF StartPoll, EntryInv, SetUp
  <2>2. Free(l) /\ Connect(l, e, FALSE) /\ UNCHANGED <<login, key, setup>>
    BY <1>4 DEF StartPoll, entries, lifecycle
  <2>3. /\ \A m \in Links : Linked(m)'
        /\ link'[l].first = FALSE /\ \A m \in Links \ {l} : link'[m] = link[m]
    BY <2>1, <2>2, Connected
  <2>4. \A m \in Links : FirstRefresh(m)'
    BY <1>0, <2>2, <2>3 DEF FirstRefresh
  <2> QED BY <2>3, <2>4
<1>5. ASSUME UNCHANGED link,
             \A e \in Entries : setup[e] = "refresh" => setup'[e] = "refresh"
      PROVE  \A m \in Links : Linked(m)' /\ FirstRefresh(m)'
  <2>1. \A m \in Links : Linked(m)'
    BY <1>5, LinkedKept
  <2>2. \A m \in Links : link[m].first => link[m].entry \in Entries
    BY <1>0 DEF Linked, Existing
  <2> QED BY <1>0, <1>5, <2>1, <2>2 DEF FirstRefresh
<1>6. ASSUME NEW e \in Entries, FinishSetup(e) \/ Unload(e) \/ ChangeOptions(e)
      PROVE  \A m \in Links : Linked(m)' /\ FirstRefresh(m)'
  <2>1. UNCHANGED link
    BY <1>6 DEF FinishSetup, Unload, ChangeOptions
  <2>2. \A d \in Entries : setup[d] = "refresh" => setup'[d] = "refresh"
    BY <1>0, <1>6 DEF FinishSetup, Unload, ChangeOptions, TypeOK
  <2> QED BY <1>5, <2>1, <2>2
<1>7. CASE (\E f \in Forms : Flow(f)) \/ (\E h \in Hosts : Rekey(h)) \/ UNCHANGED vars
  <2>1. ASSUME NEW f \in Forms, Flow(f) PROVE UNCHANGED <<link, setup>>
    <3>1. CASE Store(f)
      BY <3>1 DEF Store
    <3>2. CASE ~Store(f)
      BY <2>1, <3>2 DEF Flow, Open, Submit, AbortNew, Abandon, ConnectTest, FetchKey,
         FailTest, lifecycle
    <3> QED BY <3>1, <3>2
  <2>2. ASSUME NEW h \in Hosts, Rekey(h) PROVE UNCHANGED <<link, setup>>
    BY <2>2 DEF Rekey, lifecycle
  <2>3. CASE UNCHANGED vars
    BY <1>5, <2>3 DEF vars, lifecycle
  <2> QED BY <1>5, <1>7, <2>1, <2>2, <2>3
<1> QED BY <1>2, <1>3, <1>4, <1>6, <1>7 DEF Next

(***************************************************************************)
(* The setups.                                                             *)
(***************************************************************************)

\* A step that changes neither the options of an entry nor what is read of them.
LEMMA SetUpKept ==
    ASSUME NEW d \in Entries, SetUp(d), UNCHANGED flowReloads,
           options'[d] = options[d], interval'[d] = interval[d], snapshot'[d] = snapshot[d],
           \/ setup'[d] \in {setup[d], "off"}
           \/ setup[d] = "refresh" /\ setup'[d] = "inventory",
           reload[d] => reload'[d], d \in missed => d \in missed',
           d \notin Existing' => d \notin Existing /\ key'[d] = key[d]
    PROVE  SetUp(d)'
<1>1. d \notin Existing' => setup'[d] = "off" /\ key'[d] = NoKey
  BY DEF SetUp
<1>2. (snapshot[d] <= options[d])'
  BY DEF SetUp
<1>3. setup'[d] \in {"refresh", "inventory"} =>
         interval'[d] = options'[d] \/ (d \in missed' /\ (flowReloads' => reload'[d]))
  BY DEF SetUp
<1>4. setup'[d] = "loaded" /\ ~reload'[d] =>
         interval'[d] = options'[d] \/ (~flowReloads' /\ d \in missed')
  BY DEF SetUp
<1> QED BY <1>1, <1>2, <1>3, <1>4 DEF SetUp

LEMMA NotifyRaises ==
    ASSUME TypeOK, NEW e \in Entries, NEW fromOptionsFlow \in BOOLEAN, Notify(e, fromOptionsFlow)
    PROVE  /\ \A d \in Entries : reload[d] => reload'[d]
           /\ flowReloads /\ fromOptionsFlow => reload'[e]
           /\ ~flowReloads /\ setup[e] = "loaded" /\ snapshot[e] # options'[e] => reload'[e]
BY DEF TypeOK, Notify, OptionsChanged

\* The steps of the entries, ...
LEMMA SetUpByEntry ==
    ASSUME EntryInv, NEW e \in Entries, FinishSetup(e) \/ Unload(e) \/ ChangeOptions(e)
    PROVE  \A d \in Entries : SetUp(d)'
<1> SUFFICES ASSUME NEW d \in Entries PROVE SetUp(d)'
  OBVIOUS
<1>0. TypeOK /\ SetUp(d)
  BY DEF EntryInv
<1>1. UNCHANGED <<flowReloads, login, key>> /\ Existing' = Existing
  BY DEF FinishSetup, Unload, ChangeOptions, servers, entries, Existing
<1>2. CASE d # e
  <2>1. /\ options'[d] = options[d] /\ interval'[d] = interval[d] /\ snapshot'[d] = snapshot[d]
        /\ setup'[d] = setup[d] /\ (d \in missed => d \in missed')
    BY <1>0, <1>2 DEF FinishSetup, Unload, ChangeOptions, TypeOK, entries, history
  <2>2. reload[d] => reload'[d]
    BY <1>0, <1>2, NotifyRaises DEF FinishSetup, Unload, ChangeOptions, TypeOK
  <2> QED BY <1>0, <1>1, <2>1, <2>2, SetUpKept
<1>3. CASE d = e /\ FinishSetup(e)
  <2>1. /\ setup[e] = "inventory" /\ setup'[e] = "loaded" /\ snapshot'[e] = options[e]
        /\ UNCHANGED <<options, interval, reload, missed>> /\ options[e] \in Int
    BY <1>0, <1>3 DEF FinishSetup, TypeOK, entries, history
  <2>2. e \in Existing
    BY <1>0, <1>3, <2>1 DEF SetUp
  <2> QED BY <1>0, <1>1, <1>3, <2>1, <2>2 DEF SetUp
<1>4. CASE d = e /\ Unload(e)
  <2>1. setup'[e] = "off" /\ snapshot'[e] = 0 /\ options'[e] = options[e] /\ options[e] \in Nat
    BY <1>0, <1>4, EntryBoundAssumption DEF Unload, TypeOK, entries
  <2> QED BY <1>0, <1>1, <1>4, <2>1 DEF SetUp
<1>5. CASE d = e /\ ChangeOptions(e)
  <2>1. /\ e \in Existing /\ UNCHANGED <<setup, interval, snapshot>>
        /\ options[e] \in Int /\ snapshot[e] \in Int
        /\ options'[e] = options[e] + 1
        /\ setup[e] \in {"refresh", "inventory"} => e \in missed'
    BY <1>0, <1>5 DEF ChangeOptions, TypeOK
  <2>2. snapshot'[e] <= options'[e] /\ snapshot[e] # options'[e]
    BY <1>0, <1>5, <2>1 DEF SetUp
  <2>3. /\ flowReloads => reload'[e]
        /\ ~flowReloads /\ setup[e] = "loaded" => reload'[e]
    BY <1>0, <1>5, <2>2, NotifyRaises DEF ChangeOptions
  <2> QED BY <1>1, <1>5, <2>1, <2>2, <2>3 DEF SetUp
<1> QED BY <1>2, <1>3, <1>4, <1>5

\* ... of their connections, ...
LEMMA SetUpByLink ==
    ASSUME EntryInv, NEW l \in Links,
           \/ \E e \in Entries : StartSetup(l, e) \/ StartPoll(l, e)
           \/ Reach(l) \/ Miss(l) \/ Reject(l)
    PROVE  \A d \in Entries : SetUp(d)'
<1> SUFFICES ASSUME NEW d \in Entries PROVE SetUp(d)'
  OBVIOUS
<1>0. TypeOK /\ SetUp(d) /\ Linked(l) /\ FirstRefresh(l)
  BY DEF EntryInv
<1>1. UNCHANGED <<flowReloads, options, login>> /\ Existing' = Existing
  BY DEF StartSetup, StartPoll, Reach, Miss, Reject, servers, entries, Existing
<1>2. ASSUME NEW e \in Entries, StartSetup(l, e) PROVE SetUp(d)'
  <2>1. UNCHANGED <<key, snapshot, reload>>
    BY <1>2 DEF StartSetup, entries
  <2>2. CASE d # e
    <3>1. setup'[d] = setup[d] /\ interval'[d] = interval[d] /\ (d \in missed => d \in missed')
      BY <1>0, <1>2, <2>2 DEF StartSetup, TypeOK
    <3> QED BY <1>0, <1>1, <2>1, <3>1, SetUpKept
  <2>3. CASE d = e
    <3>1. e \in Existing /\ setup'[e] = "refresh" /\ interval'[e] = options[e]
      BY <1>0, <1>2 DEF StartSetup, TypeOK
    <3> QED BY <1>0, <1>1, <2>1, <2>3, <3>1 DEF SetUp
  <2> QED BY <2>2, <2>3
<1>3. ASSUME NEW e \in Entries, StartPoll(l, e) PROVE SetUp(d)'
  BY <1>0, <1>1, <1>3, SetUpKept DEF StartPoll, entries, lifecycle, history
<1>4. ASSUME Reach(l) PROVE SetUp(d)'
  <2>1. link[l].entry \in Existing /\ link[l].entry \in Entries
    BY <1>0, <1>4 DEF Reach, Linked, Existing
  <2>2. setup'[d] = setup[d] \/ (setup[d] = "refresh" /\ setup'[d] \in {"inventory", "off"})
    BY <1>0, <1>4, <2>1 DEF Reach, TypeOK, FirstRefresh
  <2>3. reload[d] => reload'[d]
    <3>1. CASE Notify(link[l].entry, FALSE)
      BY <1>0, <2>1, <3>1, NotifyRaises
    <3> QED BY <1>4, <3>1 DEF Reach
  <2>4. d \notin Existing => key'[d] = key[d]
    BY <1>0, <1>4, <2>1 DEF Reach, TypeOK
  <2>5. UNCHANGED <<interval, snapshot, missed>>
    BY <1>4 DEF Reach, history
  <2> QED BY <1>0, <1>1, <2>2, <2>3, <2>4, <2>5, SetUpKept
<1>5. ASSUME Miss(l) \/ Reject(l) PROVE SetUp(d)'
  <2>1. setup'[d] \in {setup[d], "off"}
    BY <1>0, <1>5 DEF Miss, Reject, GiveUp, TypeOK
  <2>2. UNCHANGED <<key, interval, snapshot, reload, missed>>
    BY <1>5 DEF Miss, Reject, entries, history
  <2> QED BY <1>0, <1>1, <2>1, <2>2, SetUpKept
<1> QED BY <1>2, <1>3, <1>4, <1>5

\* ... and of a form that is stored.
LEMMA SetUpByStore ==
    ASSUME EntryInv, NEW f \in Forms, Store(f)
    PROVE  \A d \in Entries : SetUp(d)'
<1> SUFFICES ASSUME NEW d \in Entries PROVE SetUp(d)'
  OBVIOUS
<1> DEFINE e == form[f].entry
<1>0. TypeOK /\ SetUp(d) /\ Flowing(f) /\ NoLogin \notin Logins
  BY EntryConstantAssumption DEF EntryInv
<1>1. /\ e \in Entries /\ form[f].login \in Logins
      /\ (form[f].kind = "user") <=> (e \notin Existing)
  BY <1>0 DEF Store, Flowing, Opened, Validating
<1>2. UNCHANGED <<flowReloads, options, setup, interval, snapshot, missed>>
  BY DEF Store, servers
<1>3. /\ login'[e] = form[f].login /\ reload'[e] = (form[f].kind # "user")
      /\ \A c \in Entries : c # e => login'[c] = login[c] /\ key'[c] = key[c] /\ reload'[c] = reload[c]
  BY <1>0, <1>1 DEF Store, TypeOK
<1>4. CASE d # e
  BY <1>0, <1>2, <1>3, <1>4, SetUpKept DEF Existing
<1>5. CASE d = e /\ e \in Existing
  <2>1. reload'[d] = TRUE
    BY <1>1, <1>3, <1>5
  <2>2. d \in Existing'
    BY <1>0, <1>1, <1>3, <1>5 DEF Existing
  <2> QED BY <1>0, <1>2, <2>1, <2>2 DEF SetUp
<1>6. CASE d = e /\ e \notin Existing
  <2>1. setup[d] = "off"
    BY <1>0, <1>6 DEF SetUp
  <2>2. d \in Existing'
    BY <1>0, <1>1, <1>3, <1>6 DEF Existing
  <2> QED BY <1>0, <1>2, <2>1, <2>2 DEF SetUp
<1> QED BY <1>4, <1>5, <1>6

LEMMA SetUpStep == EntryInv /\ [Next]_vars => \A d \in Entries : SetUp(d)'
<1> SUFFICES ASSUME EntryInv, [Next]_vars PROVE \A d \in Entries : SetUp(d)'
  OBVIOUS
<1>0. \A d \in Entries : SetUp(d)
  BY DEF EntryInv
<1>1. ASSUME UNCHANGED <<flowReloads, entries, lifecycle, missed>>
      PROVE  \A d \in Entries : SetUp(d)'
  BY <1>0, <1>1, SetUpKept DEF entries, lifecycle, Existing
<1>2. ASSUME NEW f \in Forms, Flow(f), ~Store(f) PROVE \A d \in Entries : SetUp(d)'
  BY <1>1, <1>2 DEF Flow, Open, Submit, AbortNew, Abandon, ConnectTest, FetchKey, FailTest,
     servers, history
<1>3. ASSUME NEW h \in Hosts, Rekey(h) PROVE \A d \in Entries : SetUp(d)'
  BY <1>1, <1>3 DEF Rekey, history
<1>4. CASE UNCHANGED vars
  BY <1>1, <1>4 DEF vars, servers, history
<1> QED BY <1>2, <1>3, <1>4, SetUpByEntry, SetUpByLink, SetUpByStore DEF Next

(***************************************************************************)
(* Servers that are configured once.                                       *)
(***************************************************************************)
LEMMA ReservedMoved ==
    ASSUME TypeOK, Reserved, NEW f \in Forms, NEW r, Moved(f, r), UNCHANGED <<login, crossed>>,
           r.at \in OpenStates \ {"shown"} => \A e \in Existing \ {r.entry} : login[e] # r.login
    PROVE  Reserved'
<1> SUFFICES ASSUME ~crossed', NEW g \in Validating' PROVE ~Taken(g, form[g].login)'
  BY DEF Reserved
<1>1. g \in Forms /\ Existing' = Existing /\ \A h \in Validating : ~Taken(h, form[h].login)
  BY DEF Reserved, Existing, Validating
<1>2. CASE g = f
  BY <1>1, <1>2, MovedForms DEF Taken
<1>3. CASE g # f
  <2>1. g \in Validating /\ form'[g] = form[g]
    BY <1>1, <1>3, MovedForms
  <2> QED BY <1>1, <2>1 DEF Taken
<1> QED BY <1>2, <1>3

LEMMA ReservedStep == EntryInv /\ [Next]_vars => Reserved'
<1> SUFFICES ASSUME EntryInv, [Next]_vars PROVE Reserved'
  OBVIOUS
<1>0. TypeOK /\ Reserved /\ \A f \in Forms : Flowing(f)
  BY DEF EntryInv
<1>1. ASSUME NEW f \in Forms, NEW r, Moved(f, r), UNCHANGED <<login, crossed>>, r.at \in {"shown", "over"}
      PROVE  Reserved'
  BY <1>0, <1>1, ReservedMoved DEF OpenStates
<1>2. ASSUME NEW f \in Forms, NEW h \in Logins, NEW accept \in BOOLEAN, Submit(f, h, accept)
      PROVE  Reserved'
  <2>1. form[f].entry \in Entries
    BY <1>0, <1>2 DEF Submit, Flowing, Opened
  <2>2. PICK r : Moved(f, r) /\ r.entry = form[f].entry /\ r.login = h
    BY <1>0, <1>2, <2>1, SubmitMoves
  <2>3. (\A e \in Existing \ {form[f].entry} : login[e] # h) /\ UNCHANGED <<login, crossed>>
    BY <1>2 DEF Submit, Taken, entries, history
  <2> QED BY <1>0, <2>2, <2>3, ReservedMoved
<1>3. ASSUME NEW f \in Forms, ConnectTest(f) PROVE Reserved'
  <2>1. f \in Validating /\ form[f].login \in Logins /\ UNCHANGED <<login, crossed>>
    BY <1>0, <1>3 DEF ConnectTest, Validating, Flowing, entries, history
  <2>2. PICK r : Moved(f, r) /\ r.entry = form[f].entry /\ r.login = form[f].login
    BY <1>0, <1>3, <2>1, TestMoves
  <2>3. crossed \/ \A e \in Existing \ {r.entry} : login[e] # r.login
    BY <1>0, <2>1, <2>2 DEF Reserved, Taken
  <2>4. CASE crossed
    BY <2>1, <2>4 DEF Reserved
  <2> QED BY <1>0, <2>1, <2>2, <2>3, <2>4, ReservedMoved
<1>4. ASSUME NEW f \in Forms, FetchKey(f) \/ FailTest(f) PROVE Reserved'
  <2>1. (f \in Validating => form[f].login \in Logins) /\ UNCHANGED <<login, crossed>>
    BY <1>0, <1>4 DEF Flowing, FetchKey, FailTest, entries, history
  <2> QED BY <1>0, <1>1, <1>4, <2>1, BackMoves
<1>5. ASSUME NEW f \in Forms, AbortNew(f) \/ Abandon(f) PROVE Reserved'
  <2>1. UNCHANGED <<login, crossed>>
    BY <1>5 DEF AbortNew, Abandon, entries, history
  <2> QED BY <1>1, <1>5, <2>1, OverMoves
<1>6. ASSUME NEW f \in Forms, NEW kind \in Kinds, NEW e \in Entries, Open(f, kind, e)
      PROVE  Reserved'
  <2>1. UNCHANGED <<login, crossed>>
    BY <1>6 DEF Open, entries, history
  <2> QED BY <1>0, <1>1, <1>6, <2>1, OpenMoves
<1>7. ASSUME NEW f \in Forms, Store(f) PROVE Reserved'
  <2>1. Moved(f, Over) /\ Over.at = "over" /\ (crossed' = (crossed \/ Validating # {f}))
    BY <1>7, OverMoves DEF Store
  <2>2. ASSUME ~crossed' PROVE Validating' = {}
    <3>1. Validating = {f}
      BY <2>1, <2>2
    <3>2. ASSUME NEW g \in Forms, g \in Validating' PROVE FALSE
      <4>1. form'[g].at \in OpenStates \ {"shown"}
        BY <1>0, <2>1, <3>2, MovedForms
      <4>2. g # f
        BY <1>0, <2>1, <4>1, MovedForms DEF OpenStates
      <4>3. g \in Validating
        BY <1>0, <2>1, <4>1, <4>2, MovedForms
      <4> QED BY <3>1, <4>2, <4>3
    <3> QED BY <3>2 DEF Validating
  <2> QED BY <2>2 DEF Reserved
<1>8. CASE ~\E f \in Forms : Flow(f)
  <2>1. UNCHANGED <<login, crossed>>
    BY <1>8, OtherSteps DEF Next, vars, history, FinishSetup, Unload, ChangeOptions, StartSetup,
       StartPoll, Reach, Miss, Reject, Rekey
  <2>2. CASE UNCHANGED form
    BY <1>0, <2>1, <2>2 DEF Reserved, Taken, Existing, Validating
  <2> QED BY <1>1, <1>8, <2>1, <2>2, OtherSteps
<1> QED BY <1>2, <1>3, <1>4, <1>5, <1>6, <1>7, <1>8 DEF Flow

(***************************************************************************)
(* The theorems.                                                           *)
(***************************************************************************)
LEMMA EntryInitially == Init => EntryInv
<1> SUFFICES ASSUME Init PROVE EntryInv
  OBVIOUS
<1>1. TypeOK
  BY TypesInitially
<1>2. \A f \in Forms : form[f].at = "idle"
  BY DEF Init, NewForm
<1>3. Opened = {} /\ Validating = {}
  BY <1>2 DEF Opened, Validating
<1>4. \A f \in Forms : Flowing(f) /\ Demanding(f)
  BY <1>2, <1>3 DEF Flowing, Demanding
<1>5. \A l \in Links : Linked(l) /\ FirstRefresh(l)
  BY DEF Init, NewLink, Linked, FirstRefresh
<1>6. ASSUME NEW e \in Entries PROVE SetUp(e)
  <2>1. setup[e] = "off" /\ snapshot[e] = 0 /\ options[e] = 0
    BY DEF Init
  <2>2. e \notin Existing => key[e] = NoKey
    BY DEF Init
  <2> QED BY <2>1, <2>2 DEF SetUp
<1>7. Reserved
  BY <1>3 DEF Reserved
<1> QED BY <1>1, <1>4, <1>5, <1>6, <1>7 DEF EntryInv

LEMMA EntryInvariant == Spec => []EntryInv
<1>1. EntryInv /\ [Next]_vars => EntryInv'
  BY TypeStep, FlowingStep, DemandingStep, LinkStep, SetUpStep, ReservedStep DEF EntryInv
<1> QED BY <1>1, EntryInitially, PTL DEF Spec

\* The variables keep their types.
THEOREM EntryTyping == Spec => []TypeOK
<1>1. EntryInv => TypeOK
  BY DEF EntryInv
<1> QED BY <1>1, EntryInvariant, PTL

\* The interval of a loaded entry is that of its options, or a reload is to
\* come, or they changed during the setup in an older Home Assistant.
THEOREM OptionsTake == Spec => []OptionsInEffect
<1>1. EntryInv => OptionsInEffect
  BY DEF EntryInv, OptionsInEffect, SetUp
<1> QED BY <1>1, EntryInvariant, PTL

\* Neither a connection to an address the entry had before nor a form filled in
\* for another one leaves its host key there.
THEOREM KeysBelong == Spec => []KeyOfItsHost
<1>1. Init => KeyOfItsHost
  BY DEF Init, KeyOfItsHost, Existing
<1>2. ASSUME EntryInv, KeyOfItsHost, [Next]_vars PROVE KeyOfItsHost'
  <2>0. TypeOK /\ NoLogin \notin Logins
    BY <1>2, EntryConstantAssumption DEF EntryInv
  <2>1. ASSUME NEW f \in Forms, Store(f) PROVE KeyOfItsHost'
    <3>1. form[f].entry \in Entries
      BY <1>2, <2>1 DEF Store, EntryInv, Flowing, Opened, Validating
    <3>2. \A d \in Entries : \/ origin'[d] = HostOf(login'[d])
                             \/ origin'[d] = origin[d] /\ login'[d] = login[d] /\ key'[d] = key[d]
      BY <2>0, <2>1, <3>1 DEF Store, TypeOK
    <3> QED BY <1>2, <3>2 DEF KeyOfItsHost, Existing
  <2>2. ASSUME NEW l \in Links, Reach(l) PROVE KeyOfItsHost'
    <3>1. UNCHANGED login /\ link[l].entry \in Existing /\ link[l].entry \in Entries
      BY <1>2, <2>2 DEF Reach, EntryInv, Linked, Existing
    <3>2. CASE link[l].key = NoKey /\ MayPin(link[l].entry)
      <4>1. link[l].login = login[link[l].entry]
        BY <1>2, <2>2, <3>1, <3>2 DEF EntryInv, Linked, MayPin, Reach
      <4>2. \A d \in Entries : \/ origin'[d] = HostOf(login[d])
                               \/ origin'[d] = origin[d] /\ key'[d] = key[d]
        BY <2>0, <2>2, <3>1, <3>2, <4>1 DEF Reach, TypeOK
      <4> QED BY <1>2, <3>1, <4>2 DEF KeyOfItsHost, Existing
    <3>3. CASE ~(link[l].key = NoKey /\ MayPin(link[l].entry))
      BY <1>2, <2>2, <3>1, <3>3 DEF Reach, KeyOfItsHost, Existing
    <3> QED BY <3>2, <3>3
  <2>3. ASSUME ~\E f \in Forms : Store(f), ~\E l \in Links : Reach(l)
        PROVE  UNCHANGED <<login, key, origin>>
    BY <1>2, <2>3 DEF Next, vars, entries, Flow, Open, Submit, AbortNew, Abandon, ConnectTest,
       FetchKey, FailTest, FinishSetup, Unload, ChangeOptions, StartSetup, StartPoll, Miss,
       Reject, Rekey
  <2>4. CASE UNCHANGED <<login, key, origin>>
    BY <1>2, <2>4 DEF KeyOfItsHost, Existing
  <2> QED BY <2>1, <2>2, <2>3, <2>4
<1> QED BY <1>1, <1>2, EntryInvariant, PTL DEF Spec

\* A pinned key is replaced only through a form, by the key it has shown, the
\* one that was pinned when it was submitted, or the first if none was.
THEOREM ChangesConfirmed == Spec => ChangedKeyConfirmed
<1> DEFINE Confirmed(e) ==
      \E f \in Forms :
          /\ form[f].at = "test" /\ form[f].entry = e
          /\ \/ key'[e] \in {form[f].offered, form[f].pinned}
             \/ form[f].pinned = NoKey
<1>1. ASSUME EntryInv, [Next]_vars, NEW e \in Existing, key[e] # NoKey, key'[e] # key[e]
      PROVE  Confirmed(e)
  <2>0. TypeOK /\ e \in Entries
    BY <1>1 DEF EntryInv, Existing
  <2>1. ASSUME NEW f \in Forms, Store(f) PROVE Confirmed(e)
    <3>1. /\ form[f].at = "test" /\ form[f].entry \in Entries
          /\ form[f].required \in {form[f].offered, form[f].pinned}
          /\ form[f].required = NoKey => form[f].pinned = NoKey
          /\ form[f].required \in {NoKey, form[f].seen}
      BY <1>1, <2>1 DEF Store, EntryInv, Flowing, Demanding, Opened, Validating
    <3>2. form[f].entry = e /\ key'[e] = form[f].seen
      BY <1>1, <2>0, <2>1, <3>1 DEF Store, TypeOK
    <3> QED BY <3>1, <3>2
  <2>2. ASSUME NEW l \in Links, Reach(l) PROVE FALSE
    <3>1. link[l].entry \in Entries
      BY <1>1, <2>2 DEF Reach, EntryInv, Linked, Existing
    <3>2. \/ key[link[l].entry] = NoKey
             /\ key' = [key EXCEPT ![link[l].entry] = serves[HostOf(link[l].login)]]
          \/ UNCHANGED key
      BY <2>2 DEF Reach, MayPin
    <3> QED BY <1>1, <2>0, <3>1, <3>2 DEF TypeOK
  <2>3. ASSUME ~\E f \in Forms : Store(f), ~\E l \in Links : Reach(l) PROVE UNCHANGED key
    BY <1>1, <2>3 DEF Next, vars, entries, Flow, Open, Submit, AbortNew, Abandon, ConnectTest,
       FetchKey, FailTest, FinishSetup, Unload, ChangeOptions, StartSetup, StartPoll, Miss,
       Reject, Rekey
  <2> QED BY <1>1, <2>1, <2>2, <2>3
<1>2. EntryInv /\ [Next]_vars => [\A e \in Existing : key[e] # NoKey /\ key'[e] # key[e] => Confirmed(e)]_vars
  BY <1>1
<1> QED BY <1>2, EntryInvariant, PTL DEF Spec, ChangedKeyConfirmed

\* No server is configured twice, unless two forms were validated at a time.
THEOREM ServersUnique == Spec => []UniqueServers
<1>1. Init => UniqueServers
  BY DEF Init, UniqueServers
<1>2. ASSUME EntryInv, UniqueServers, [Next]_vars PROVE UniqueServers'
  <2>0. TypeOK /\ Reserved
    BY <1>2 DEF EntryInv
  <2>1. ASSUME NEW f \in Forms, Store(f), ~crossed', NEW c \in Existing', NEW d \in Existing',
               login'[c] = login'[d]
        PROVE  c = d
    <3> DEFINE e == form[f].entry
    <3>1. f \in Validating /\ e \in Entries /\ c \in Entries /\ d \in Entries /\ ~crossed
      BY <1>2, <2>1 DEF Store, EntryInv, Flowing, Opened, Validating, Existing
    <3>2. login'[e] = form[f].login /\ \A b \in Entries : b # e => login'[b] = login[b]
      BY <2>0, <2>1, <3>1 DEF Store, TypeOK
    <3>3. \A b \in Existing \ {e} : login[b] # form[f].login
      BY <2>0, <3>1 DEF Reserved, Taken
    <3>4. c # e => c \in Existing
      BY <2>1, <3>1, <3>2 DEF Existing
    <3>5. d # e => d \in Existing
      BY <2>1, <3>1, <3>2 DEF Existing
    <3> QED BY <1>2, <2>1, <3>1, <3>2, <3>3, <3>4, <3>5 DEF UniqueServers
  <2>2. ASSUME NEW f \in Forms, Store(f) PROVE UniqueServers'
    BY <2>1, <2>2 DEF UniqueServers
  <2>3. ASSUME ~\E f \in Forms : Store(f) PROVE UNCHANGED <<login, crossed>>
    BY <1>2, <2>3 DEF Next, vars, entries, history, Flow, Open, Submit, AbortNew, Abandon,
       ConnectTest, FetchKey, FailTest, FinishSetup, Unload, ChangeOptions, StartSetup,
       StartPoll, Reach, Miss, Reject, Rekey
  <2>4. CASE UNCHANGED <<login, crossed>>
    BY <1>2, <2>4 DEF UniqueServers, Existing
  <2> QED BY <2>2, <2>3, <2>4
<1> QED BY <1>1, <1>2, EntryInvariant, PTL DEF Spec
=============================================================================
