SPECIFICATION FairSpec
CONSTANTS
    Upgrades = {}
    Maintenances = {m1}
    Reboots = {r1}
    Checks = {c1}
    RefreshCache = TRUE
    Numeric = {0, 1}
    Marker = TRUE
    MaxReloads = 1
    MaxVersion = 1
INVARIANTS TypeOK GatePerLoad ReportedInstalled NothingInstalled AttemptsBounded
PROPERTIES LoadsTakeTurns NoRebootSentDuringInstall CompleteCheckIsExact UpgradeEnds
CHECK_DEADLOCK FALSE
