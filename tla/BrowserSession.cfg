CONSTANTS
    Ops = {"o1", "o2"}
    LoginWindow = 1
    HelperLife = 1
    SessionMax = 1
    Retention = 1
    GrantLife = 1
    MaxTime = 4
    Scenarios <- MCTwo
SPECIFICATION FairSpec
INVARIANTS AccountExclusive JournaledFirst
PROPERTY AccountFreed
CHECK_DEADLOCK FALSE
