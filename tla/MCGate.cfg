SPECIFICATION Spec
SYMMETRY Symmetry
CONSTANTS
    Ops = {o1, o2}
    Poll = poll
    Kinds = {"update", "repair", "services"}
    Pendings = {"reboot", "services"}
    Proxmox = FALSE
    MaxBoots = 1
    RefreshDelay = 1
    RetryInterval = 1
    WatchTimeout = 1
INVARIANTS TypeOK GateExclusive IssueTracksData
CHECK_DEADLOCK FALSE
