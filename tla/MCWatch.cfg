SPECIFICATION FairSpec
CONSTANTS
    Ops = {o1, o2}
    Poll = poll
    Kinds = {"update_reboot"}
    Pendings = {}
    Proxmox = FALSE
    MaxBoots = 2
    RefreshDelay = 2
    RetryInterval = 1
    WatchTimeout = 3
INVARIANTS OneTimer WatchKept NoStrayCheck
PROPERTIES RebootAnswered VerdictTimely BootTestExact WatchEnds TakesTurns
CHECK_DEADLOCK FALSE
