SPECIFICATION FairSpec
CONSTANTS
    Names = {n1}
    MeantToRun = {}
    Installable = {n1}
    Rescans = {r1}
    Installs = {i1}
    Starts = {a1}
    Stops = {s1}
    Poll = poll
    Setup = setup
    MaxChanges = 0
INVARIANTS TypeOK FlagsOwned
PROPERTIES ScanEnds
CHECK_DEADLOCK FALSE
