SPECIFICATION SerialFairSpec
CONSTANTS
    Sessions = {v1, v2}
    Labs = {l1}
    Scenarios = {s1}
    Requests = {q1}
    Editors = {e1}
    MaxStarts = 2
    Canonicals <- MCCanonicals
    ActionLists <- MCOneActionList
    Apply <- MCCutApply
    Confirmed <- MCCutApplied
INVARIANTS
    VerdictFitsStatus
PROPERTIES
    VerifiedByPassingRecovery
    LifecycleSpec
    ResetTakesEffect
    StaleRuntimesCollected
