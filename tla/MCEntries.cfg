SPECIFICATION Spec
CONSTANTS
    Entries = {e1, e2}
    Hosts = {h1, h2}
    Users = {u1}
    Keys = {k1, k2}
    Forms = {f1, f2}
    Links = {l1}
    NoKey = NoKey
    NoLogin = NoLogin
    NoHost = NoHost
    NoEntry = NoEntry
    MaxRekeys = 1
    MaxOptions = 1
INVARIANTS TypeOK KeyOfItsHost UniqueServers OptionsInEffect
PROPERTIES ChangedKeyConfirmed
SYMMETRY Symmetry
CHECK_DEADLOCK FALSE
