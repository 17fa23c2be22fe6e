SPECIFICATION Spec
CONSTANTS
    Ops = {a, b}
    Tokens = {t}
    Sources = {i1, i2}
    Calls = {c1, c2}
    Sids <- MCSids
    PairMax = 2
    TotalMax = 2
    IpMax = 3
    TrackedMax = 1
    Ttl = 2
    Absolute = 3
    IdleMax = 2
    DesktopMax = 1
    Scenarios <- MCScenarios
SYMMETRY MCSymmetry
CHECK_DEADLOCK FALSE
INVARIANTS
    BootstrappedOnce
    SessionsSound
    GuessesBounded
