SPECIFICATION Spec
CONSTANTS
    Digests = {1, 2}
    Installs = {i1}
    Rescans = {r1}
    Poll = poll
    Unknown = unknown
INVARIANTS TypeOK AllClearIsTrue OfferIsReal
PROPERTIES InstallSettles
CHECK_DEADLOCK FALSE
