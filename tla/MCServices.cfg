SPECIFICATION ServicesSpec
CONSTANTS
    Passwords = {"p1", "p2"}
    SessionIds = {"i1"}
    Handlers = {"h1", "h2"}
    NoPassword = "none"
    Logins = {"l1", "l2"}
    AttemptLimit = 3
    FailLimit = 1
    Digests = {d1}
    Ids = {a1, a2}
    Uploads = {u1, u2}
    Deletions = {r1}
    Attachable = {}
    NoUpload = NoUpload
    NoDigest = NoDigest
    Prefixes <- MCPrefixes
    Prefix <- MCPrefix
\* Requests and clicks come from outside: none may come, and ids run out.
CHECK_DEADLOCK FALSE
INVARIANTS
    SessionsTypeOK
    OnlyCrossingsSurvive
    ActsOnlyWithSession
    PoolEndsUnobserved
    LimitsHold
PROPERTIES
    ServerFinishes
    RegisterSpec
    OrphansCollected
