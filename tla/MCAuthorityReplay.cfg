CONSTANTS
    RootKeys = {r1, r2}
    RuntimeKeys = {k1}
    Windows <- MCWindows
    Passports = {"native", r1, r2}
    MaxTime = 2
    MaxLog = 5
    MaxCps = 2
    Quota <- MCQuota
    MaxOdd = 1
    Keys = 1
    Roots = 2
    AgentRevisions = 1
    Bindings = 2
    Grants = 1
    GrantRevisions = 1
    Revocations = 1
    Intents = 1
SPECIFICATION Spec
SYMMETRY Symmetry
INVARIANTS
    IntervalSound
    VerifiedWithinGrant
    NoSubstitution
PROPERTIES
    RootHistoryKept
CHECK_DEADLOCK FALSE
