----------------------------- MODULE EntryConfig -----------------------------
(***************************************************************************)
(* The config entries and what writes them: the forms of config_flow.py    *)
(* (a new server, reconfigure, reauth, options), the connections of the    *)
(* coordinators, which pin the host key of an entry that has none, and the *)
(* setup and the reloads of an entry (__init__.py).                        *)
(*                                                                         *)
(* A server is identified by its host and the user name; the port is part  *)
(* of the host.  The users of a host are shown the same host key.          *)
(* Every form is one flow, whose form may be submitted again and again.    *)
(* An action is what runs between two awaits, so what a form has read of   *)
(* its entry may be out of date when it is stored.                         *)
(***************************************************************************)
EXTENDS Integers

CONSTANTS
    Entries,    \* config entries, one of which at least exists at the start
    Hosts,      \* addresses of servers
    Users,      \* user names
    Keys,       \* host keys
    Forms,      \* flows
    Links,      \* connections of coordinators
    NoKey,      \* no host key is stored, or none has been offered
    NoLogin,    \* the login of an entry that does not exist
    NoHost,     \* no server has presented a key
    NoEntry,    \* the entry of a form or a connection that is not in use
    MaxRekeys,  \* bound on the changes of the servers' host keys
    MaxOptions  \* bound on the changes of the options

\* Host, port and user name, which make the unique_id (_unique_id).
Logins == Hosts \X Users
HostOf(l) == l[1]

ASSUME EntryConstantAssumption ==
    /\ NoKey \notin Keys /\ NoEntry \notin Entries
    /\ NoHost \notin Hosts /\ NoLogin \notin Logins
ASSUME EntryBoundAssumption == MaxRekeys \in Nat /\ MaxOptions \in Nat

VARIABLES
    flowReloads,    \* OPTIONS_FLOW_RELOADS: whether Home Assistant is new
    serves,         \* the host key of each server
    rekeys,         \* how many times one has changed
    login,          \* host, port and user of entry.data, and its unique_id
    key,            \* entry.data[CONF_HOST_KEY]
    options,        \* the version of entry.options
    setup,          \* where the setup of each entry is
    interval,       \* the version of the options the update interval is from
    snapshot,       \* hass.data[DOMAIN][entry_id]["options"]
    reload,         \* a reload of the entry has been scheduled
    form,           \* the state of each flow
    link,           \* the state of each connection
    origin,         \* history: the server that presented the key of each entry
    crossed,        \* history: a form was stored while another was validated
    missed          \* history: the options changed during the setup of these

entries == <<login, key, options, origin>>
lifecycle == <<setup, interval, snapshot, reload>>
servers == <<flowReloads, serves, rekeys>>
history == <<crossed, missed>>
vars == <<servers, entries, lifecycle, form, link, history>>

Existing == {e \in Entries : login[e] # NoLogin}
Kinds == {"user", "reconfigure", "reauth"}

\* A flow: its kind, the entry it is about, whether it shows its form, tests
\* the connection or fetches the host key, what was submitted and the key
\* pinned then, the key the server has to present, the one it was asked to
\* confirm (_offered_host_key), and the one the connection has seen.
NewForm == [kind |-> "user", entry |-> NoEntry, at |-> "idle", login |-> NoLogin,
            pinned |-> NoKey, required |-> NoKey, offered |-> NoKey, seen |-> NoKey]
Over == [NewForm EXCEPT !.at = "over"]

\* The form is shown, with a key to be confirmed or without one; the flow of a
\* new server keeps the unique_id it has claimed.
Shown(f, offered) ==
    [NewForm EXCEPT !.kind = form[f].kind, !.entry = form[f].entry, !.at = "shown",
        !.login = IF form[f].kind = "user" THEN form[f].login ELSE NoLogin,
        !.offered = offered]
Validating == {f \in Forms : form[f].at \in {"connect", "fetch", "test"}}
Opened == {f \in Forms : form[f].at = "shown"} \cup Validating

\* A connection: its entry, what build_connection has read of it, and whether
\* it belongs to the first refresh of a setup.
NewLink == [entry |-> NoEntry, login |-> NoLogin, key |-> NoKey, first |-> FALSE]
Free(l) == link[l].entry = NoEntry

\* Mutant of Trusts: the host key is not compared (known_hosts is None).
TrustsAll(known, l) == TRUE
\* Whether the server's host key passes the check against a known one.
Trusts(known, l) == known \in {NoKey, serves[HostOf(l)]}

(***************************************************************************)
(* The setup of an entry and its reloads.                                  *)
(***************************************************************************)

\* Mutant of OptionsChanged: the options are compared with themselves, as
\* hass.data holds no copy of them.
SameObject(e) == FALSE
\* _async_update_listener compares the options with those of the setup.
OptionsChanged(e) == snapshot[e] # options'[e]

\* What a change of entry e causes: the listener of older versions of Home
\* Assistant, which exists once the setup is done, and the flow of newer ones.
Notify(e, fromOptionsFlow) ==
    reload' = [reload EXCEPT ![e] =
        \/ @
        \/ flowReloads /\ fromOptionsFlow
        \/ ~flowReloads /\ setup[e] = "loaded" /\ OptionsChanged(e)]

Connect(l, e, first) ==
    link' = [link EXCEPT ![l] = [entry |-> e, login |-> login[e], key |-> key[e],
                                 first |-> first]]

\* async_setup_entry begins: the interval is read, and the first refresh
\* connects.
StartSetup(l, e) ==
    /\ e \in Existing
    /\ setup[e] = "off"
    /\ Free(l)
    /\ setup' = [setup EXCEPT ![e] = "refresh"]
    /\ interval' = [interval EXCEPT ![e] = options[e]]
    /\ missed' = missed \ {e}
    /\ Connect(l, e, TRUE)
    /\ UNCHANGED <<servers, entries, snapshot, reload, form, crossed>>

\* The inventory is over, found or not; the options are remembered.
FinishSetup(e) ==
    /\ setup[e] = "inventory"
    /\ setup' = [setup EXCEPT ![e] = "loaded"]
    /\ snapshot' = [snapshot EXCEPT ![e] = options[e]]
    /\ UNCHANGED <<servers, entries, interval, reload, form, link, history>>

\* A scheduled reload unloads the entry, and waits for a setup under way.
Unload(e) ==
    /\ reload[e]
    /\ setup[e] \in {"off", "loaded"}
    /\ setup' = [setup EXCEPT ![e] = "off"]
    /\ interval' = [interval EXCEPT ![e] = 0]
    /\ snapshot' = [snapshot EXCEPT ![e] = 0]
    /\ reload' = [reload EXCEPT ![e] = FALSE]
    /\ UNCHANGED <<servers, entries, form, link, history>>

\* The options flow stores other options.
ChangeOptions(e) ==
    /\ e \in Existing
    /\ \A d \in Entries : options[d] < MaxOptions
    /\ options' = [options EXCEPT ![e] = @ + 1]
    /\ Notify(e, TRUE)
    /\ missed' = IF setup[e] \in {"refresh", "inventory"} THEN missed \cup {e} ELSE missed
    /\ UNCHANGED <<servers, login, key, origin, setup, interval, snapshot, form, link,
                   crossed>>

(***************************************************************************)
(* The connections of a coordinator.                                       *)
(***************************************************************************)
StartPoll(l, e) ==
    /\ setup[e] = "loaded"
    /\ Free(l)
    /\ Connect(l, e, FALSE)
    /\ UNCHANGED <<servers, entries, lifecycle, form, history>>

\* Mutant of MayPin: a key that is stored already is replaced.
PinAlways(e) == TRUE
\* _async_pin_host_key
MayPin(e) == key[e] = NoKey

\* The server is reached; a connection without a known key pins the one it
\* sees.  Reading the server may still fail then.
Reach(l) ==
    LET c == link[l] IN
    /\ c.entry # NoEntry
    /\ Trusts(c.key, c.login)
    /\ UNCHANGED <<login, options>>
    /\ IF c.key = NoKey /\ MayPin(c.entry)
       THEN /\ key' = [key EXCEPT ![c.entry] = serves[HostOf(c.login)]]
            /\ origin' = [origin EXCEPT ![c.entry] = HostOf(c.login)]
            /\ Notify(c.entry, FALSE)
       ELSE UNCHANGED <<key, origin, reload>>
    /\ IF c.first
       THEN \E next \in {"inventory", "off"} : setup' = [setup EXCEPT ![c.entry] = next]
       ELSE UNCHANGED setup
    /\ link' = [link EXCEPT ![l] = NewLink]
    /\ UNCHANGED <<servers, interval, snapshot, form, history>>

\* A setup whose first refresh fails is over.
GiveUp(l) ==
    /\ setup' = IF link[l].first THEN [setup EXCEPT ![link[l].entry] = "off"] ELSE setup
    /\ link' = [link EXCEPT ![l] = NewLink]

\* The server cannot be reached, or reading it fails with no key to be pinned.
Miss(l) ==
    /\ ~Free(l)
    /\ GiveUp(l)
    /\ UNCHANGED <<servers, entries, interval, snapshot, reload, form, history>>

\* The server rejects the login, or presents another key: unless one is open,
\* Home Assistant starts a flow that asks the user (ConfigEntryAuthFailed).
Reject(l) ==
    LET e == link[l].entry IN
    /\ ~Free(l)
    /\ GiveUp(l)
    /\ IF \E g \in Opened : form[g].kind = "reauth" /\ form[g].entry = e
       THEN UNCHANGED form
       ELSE \E f \in Forms :
            /\ form[f].at = "idle"
            /\ form' = [form EXCEPT ![f] = [NewForm EXCEPT
                            !.kind = "reauth", !.entry = e, !.at = "shown"]]
    /\ UNCHANGED <<servers, entries, interval, snapshot, reload, history>>

(***************************************************************************)
(* The forms.                                                              *)
(***************************************************************************)

\* The user adds a server, or changes one.
Open(f, kind, e) ==
    /\ form[f].at = "idle"
    /\ \/ kind = "reconfigure" /\ e \in Existing
       \/ /\ kind = "user" /\ e \notin Existing
          /\ \A g \in Opened : form[g].entry # e
    /\ form' = [form EXCEPT ![f] = [NewForm EXCEPT
                    !.kind = kind, !.entry = e, !.at = "shown"]]
    /\ UNCHANGED <<servers, entries, lifecycle, link, history>>

\* Mutant of Taken: the other entries are not looked at.
NeverTaken(f, l) == FALSE
\* _unique_id_taken, _abort_if_unique_id_configured
Taken(f, l) == \E e \in Existing \ {form[f].entry} : login[e] = l

\* Another flow is adding this server (async_set_unique_id).
Claimed(f, l) == \E g \in Opened \ {f} : form[g].kind = "user" /\ form[g].login = l

\* Mutant of Required: with the confirmation ticked any key is accepted.
RequiredUnless(f, pinned, accept) == IF accept THEN NoKey ELSE pinned
\* The key that the server must present: the pinned one, or exactly the one
\* whose fingerprint was shown if the user confirms it.
Required(f, pinned, accept) == IF accept THEN form[f].offered ELSE pinned

\* The form is submitted for login l, its entry is read, and the test connects;
\* the form of a reauthentication has the user name, but not the host.
Submit(f, l, accept) ==
    LET e == form[f].entry
        pinned == IF form[f].kind = "user" THEN NoKey ELSE key[e] IN
    /\ form[f].at = "shown"
    /\ form[f].kind = "reauth" => HostOf(l) = HostOf(login[e])
    /\ accept => form[f].offered # NoKey /\ form[f].kind # "user"
    /\ ~Taken(f, l)
    /\ form[f].kind = "user" => ~Claimed(f, l)
    /\ form' = [form EXCEPT ![f] = [@ EXCEPT !.at = "connect", !.login = l,
                    !.pinned = pinned, !.required = Required(f, pinned, accept)]]
    /\ UNCHANGED <<servers, entries, lifecycle, link, history>>

\* A new server that is configured already, or claimed, ends the flow.
AbortNew(f) ==
    /\ form[f].kind = "user" /\ form[f].at = "shown"
    /\ \E l \in Logins : Taken(f, l) \/ Claimed(f, l)
    /\ form' = [form EXCEPT ![f] = Over]
    /\ UNCHANGED <<servers, entries, lifecycle, link, history>>

\* The user gives up, which closes the flow.
Abandon(f) ==
    /\ form[f].at = "shown"
    /\ form' = [form EXCEPT ![f] = Over]
    /\ UNCHANGED <<servers, entries, lifecycle, link, history>>

\* The connection test of a form (_async_validate) reaches the server, ...
ConnectTest(f) ==
    LET l == form[f].login IN
    /\ form[f].at = "connect"
    /\ IF Trusts(form[f].required, l)
       THEN form' = [form EXCEPT ![f] = [@ EXCEPT !.at = "test", !.seen = serves[HostOf(l)]]]
       ELSE form' = [form EXCEPT ![f].at = "fetch"]
    /\ UNCHANGED <<servers, entries, lifecycle, link, history>>

\* Mutant of Offer: the fingerprint is kept instead of the key.
OfferFingerprint(h) == <<serves[h]>>
\* async_fetch_host_key
Offer(h) == serves[h]

\* ... which presents another key, whose fingerprint is shown, ...
FetchKey(f) ==
    /\ form[f].at = "fetch"
    /\ form' = [form EXCEPT ![f] = Shown(f, Offer(HostOf(form[f].login)))]
    /\ UNCHANGED <<servers, entries, lifecycle, link, history>>

\* ... or fails, which the form shows, ...
FailTest(f) ==
    /\ f \in Validating
    /\ form' = [form EXCEPT ![f] = Shown(f, form[f].offered)]
    /\ UNCHANGED <<servers, entries, lifecycle, link, history>>

\* ... or succeeds: the entry is stored, and set up or reloaded.
Store(f) ==
    LET e == form[f].entry IN
    /\ form[f].at = "test"
    /\ login' = [login EXCEPT ![e] = form[f].login]
    /\ key' = [key EXCEPT ![e] = form[f].seen]
    /\ origin' = [origin EXCEPT ![e] = HostOf(form[f].login)]
    /\ UNCHANGED options
    /\ reload' = [reload EXCEPT ![e] = form[f].kind # "user"]
    /\ form' = [form EXCEPT ![f] = Over]
    /\ crossed' = (crossed \/ Validating # {f})
    /\ UNCHANGED <<servers, setup, interval, snapshot, link, missed>>

(***************************************************************************)
(* The servers, and the specification.                                     *)
(***************************************************************************)
Rekey(h) ==
    /\ rekeys < MaxRekeys
    /\ \E k \in Keys \ {serves[h]} : serves' = [serves EXCEPT ![h] = k]
    /\ rekeys' = rekeys + 1
    /\ UNCHANGED <<flowReloads, entries, lifecycle, form, link, history>>

\* Entries from before 0.7.0 have no host key.
Init ==
    /\ flowReloads \in BOOLEAN
    /\ serves \in [Hosts -> Keys]
    /\ rekeys = 0
    /\ login \in [Entries -> Logins \cup {NoLogin}]
    /\ Existing # {} /\ \A d, e \in Existing : login[d] = login[e] => d = e
    /\ key \in [Entries -> Keys \cup {NoKey}]
    /\ \A e \in Entries : key[e] \in IF e \in Existing THEN {NoKey, serves[HostOf(login[e])]} ELSE {NoKey}
    /\ options = [e \in Entries |-> 0]
    /\ setup = [e \in Entries |-> "off"]
    /\ interval = [e \in Entries |-> 0]
    /\ snapshot = [e \in Entries |-> 0]
    /\ reload = [e \in Entries |-> FALSE]
    /\ form = [f \in Forms |-> NewForm]
    /\ link = [l \in Links |-> NewLink]
    /\ origin = [e \in Entries |-> IF key[e] = NoKey THEN NoHost ELSE HostOf(login[e])]
    /\ crossed = FALSE
    /\ missed = {}

Flow(f) ==
    \/ \E kind \in Kinds, e \in Entries : Open(f, kind, e)
    \/ \E l \in Logins, accept \in BOOLEAN : Submit(f, l, accept)
    \/ AbortNew(f) \/ Abandon(f)
    \/ ConnectTest(f) \/ FetchKey(f) \/ FailTest(f) \/ Store(f)

Next ==
    \/ \E e \in Entries : FinishSetup(e) \/ Unload(e) \/ ChangeOptions(e)
    \/ \E l \in Links, e \in Entries : StartSetup(l, e) \/ StartPoll(l, e)
    \/ \E l \in Links : Reach(l) \/ Miss(l) \/ Reject(l)
    \/ \E f \in Forms : Flow(f)
    \/ \E h \in Hosts : Rekey(h)

Spec == Init /\ [][Next]_vars

(***************************************************************************)
(* Properties.                                                             *)
(***************************************************************************)
TypeOK ==
    /\ flowReloads \in BOOLEAN /\ crossed \in BOOLEAN
    /\ serves \in [Hosts -> Keys]
    /\ rekeys \in 0 .. MaxRekeys
    /\ login \in [Entries -> Logins \cup {NoLogin}]
    /\ key \in [Entries -> Keys \cup {NoKey}]
    /\ origin \in [Entries -> Hosts \cup {NoHost}]
    /\ options \in [Entries -> 0 .. MaxOptions]
    /\ interval \in [Entries -> 0 .. MaxOptions]
    /\ snapshot \in [Entries -> 0 .. MaxOptions]
    /\ setup \in [Entries -> {"off", "refresh", "inventory", "loaded"}]
    /\ reload \in [Entries -> BOOLEAN]
    /\ form \in [Forms -> [
           kind : Kinds, entry : Entries \cup {NoEntry},
           at : {"idle", "shown", "connect", "fetch", "test", "over"},
           login : Logins \cup {NoLogin}, pinned : Keys \cup {NoKey},
           required : Keys \cup {NoKey}, offered : Keys \cup {NoKey},
           seen : Keys \cup {NoKey}]]
    /\ link \in [Links -> [entry : Entries \cup {NoEntry}, login : Logins \cup {NoLogin},
                           key : Keys \cup {NoKey}, first : BOOLEAN]]
    /\ missed \subseteq Entries

\* The host key of an entry is one that the server at its address presented:
\* a connection to the address it had before, which ends after the form that
\* changed it was stored, does not leave its key there, nor does a form that was
\* filled in for another address (coordinator.py: _async_pin_host_key).
KeyOfItsHost ==
    \A e \in Existing : key[e] # NoKey => origin[e] = HostOf(login[e])

\* A pinned key is replaced only through a form: by the key whose fingerprint
\* that form has shown, by the one that was pinned when it was submitted, or by
\* the first one seen if none was (config_flow.py: "a changed host key is never
\* accepted silently").
ChangedKeyConfirmed ==
    [][\A e \in Existing : key[e] # NoKey /\ key'[e] # key[e] =>
        \E f \in Forms :
            /\ form[f].at = "test" /\ form[f].entry = e
            /\ \/ key'[e] \in {form[f].offered, form[f].pinned}
               \/ form[f].pinned = NoKey]_vars

\* No server is configured twice, unless two forms were validated at a time:
\* the check precedes the connection test (config_flow.py: _unique_id_taken).
UniqueServers ==
    crossed \/ \A d, e \in Existing : login[d] = login[e] => d = e

\* The interval of a loaded entry is that of its options, unless a reload is
\* about to come, or they changed during its setup before Home Assistant had
\* OptionsFlowWithReload (__init__.py: the listener exists only after it).
OptionsInEffect ==
    \A e \in Entries : setup[e] = "loaded" /\ ~reload[e] =>
        interval[e] = options[e] \/ (~flowReloads /\ e \in missed)
=============================================================================
