SPECIFICATION Spec

CONSTANTS
    Ops = {o1}
    Poll = poll
    Kinds = {"reboot"}
    Pendings = {}
    Proxmox = FALSE
    MaxBoots = 3
    RefreshDelay = 1
    RetryInterval = 1
    WatchTimeout = 2

PROPERTIES SuccessMeansRebooted
CHECK_DEADLOCK FALSE
