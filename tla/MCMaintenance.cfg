SPECIFICATION Spec
CONSTANTS
    Servers = {s1, s2}
    NoServer = nobody
    Modes = {"never", "if_required", "always"}
    MaxPending = 2
INVARIANTS TypeOK AllServed RebootsAsAsked
PROPERTIES DecidedOnFreshData PassEnds
CHECK_DEADLOCK FALSE
