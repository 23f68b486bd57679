SPECIFICATION Spec
CONSTANTS
    Sessions = {v1}
    Labs = {l1}
    Scenarios = {s1}
    Requests = {q1, q2}
    Editors = {e1}
    MaxStarts = 2
    Canonicals <- MCOneCanonical
    ActionLists <- MCActionLists
    Apply <- MCOneApply
    Confirmed <- MCConfirmed
SYMMETRY MCSymmetry
INVARIANTS
    OneRuntimePerLab
PROPERTIES
    RuntimeKeepsIdentity
