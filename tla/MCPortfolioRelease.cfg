SPECIFICATION Spec
CONSTANTS
    Projects = {p1}
    Labs = {l1, l2}
    Admins = {a1}
    Editors = {}
    Strays = {}
    MaxRevision = 3
    Contents <- MCContents
    Fit <- MCFit
    OpenLifecycles <- MCOpenLifecycles
SYMMETRY MCSymmetry
\* Requests come from outside: none may come, and ids and revisions run out.
CHECK_DEADLOCK FALSE
INVARIANTS
PROPERTIES
    ReleaseSpec
