SPECIFICATION Spec
CONSTANTS
    Projects = {p1, p2}
    Labs = {l1}
    Admins = {a1}
    Editors = {e1}
    Strays = {p1, p2}
    MaxRevision = 3
    Contents <- MCContents
    Fit <- MCFit
    OpenLifecycles = {"COMPLETED"}
SYMMETRY MCSymmetry
\* Requests come from outside: none may come, and ids and revisions run out.
CHECK_DEADLOCK FALSE
INVARIANTS
    ValidatedIsCurrent
PROPERTIES
    PublicationIsValidated
