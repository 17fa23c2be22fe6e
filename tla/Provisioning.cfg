CONSTANTS
    alice = alice
    bob = bob
    g1 = g1
    g2 = g2
    Grants = {g1, g2}
    Operators = {alice, bob}
    Roles <- MCRoles
    Decider <- MCDecider
    Dests = {"d1"}
    Values = {"v1"}
    Keys = {"k1"}
    MaxOffers = 1
    OfferLife = 1
    GrantLife = 2
    MaxTime = 2
    MaxBindings = 2
    MaxCalls = 1
    MaxFaults = 2
    Scenarios <- MCScenarios
SPECIFICATION FairSpec
INVARIANTS StoredAsCollected OneOfferPerGrant
PROPERTY InboxDrains
CHECK_DEADLOCK FALSE
