SPECIFICATION Spec
CONSTANTS
    Servers = {s1, s2}
    NoServer = nobody
    Modes = {"if_required"}
    MaxPending = 0
INVARIANTS OthersGoOn
CHECK_DEADLOCK FALSE
