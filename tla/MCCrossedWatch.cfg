SPECIFICATION Spec
CONSTANTS
    Ops = {o1, o2}
    Poll = poll
    Kinds = {"reboot"}
    Pendings = {}
    Proxmox = FALSE
    MaxBoots = 2
    RefreshDelay = 2
    RetryInterval = 1
    WatchTimeout = 3
INVARIANTS RebootingShown
CHECK_DEADLOCK FALSE
