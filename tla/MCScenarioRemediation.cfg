SPECIFICATION Spec
CONSTANTS
    Sessions = {v1}
    Labs = {l1}
    Scenarios = {s1}
    Requests = {q1, q2}
    Editors = {}
    MaxStarts = 2
    Canonicals <- MCCanonicals
    ActionLists <- MCActionLists
    Apply <- MCApply
    Confirmed <- MCConfirmed
PROPERTIES
    RemediationIsFinal
