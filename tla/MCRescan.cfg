SPECIFICATION Spec
SYMMETRY Symmetry
CONSTANTS
    Names = {n1, n2}
    MeantToRun = {}
    Installable = {n1, n2}
    Rescans = {r1}
    Installs = {i1}
    Starts = {}
    Stops = {}
    Poll = poll
    Setup = setup
    MaxChanges = 1
INVARIANTS EntitiesFollow
PROPERTIES KnownStaysKnown
CHECK_DEADLOCK FALSE
