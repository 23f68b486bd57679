SPECIFICATION PagesSpec
CONSTANTS
    Devices = {"d1", "d2", "d3"}
    Links = {"k1", "k2"}
    EndsOfLink <- MCEndsOfLink
    Neighbors = {"n1"}
    NeighborEnds <- MCNeighborEnds
    Members = {"d1", "d2"}
    Priority <- MCPriority
    Services = {"u1", "u2"}
    Enabled = {"u1"}
    Targets = {"t1"}
    Ports = {"p1", "p2"}
    DefaultPort = "p1"
    PipelineStages = {"g1", "g2"}
    Desired = 1
    ListBound = 3
    PathDevices = {1, 2, 3, 4}
    PathLinks = {1, 2, 3}
    From <- MCFrom
    To <- MCTo
    Routers = {2}
    Bits = 2
    None = None
    NotAnAddress = NotAnAddress
    Address <- MCAddress
    NoAddress = None
    Malformed = NotAnAddress
    Recorded <- MCRecorded
    CliLabs = {"a", "b"}
    CliTargets = {"t"}
    TargetsIn <- MCTargetsIn
    CliDomain <- MCCliDomain
    PageCategories = {"root", "net"}
    RootCategory = "root"
    FirstIn <- MCFirst
    NoName = "none"
    OverlayBound = 1
    ActBound = 3
    CliVerbs = {"list", "switch", "bare", "show", "health", "run", "restore"}
    CommandSlots = {"c"}
    ConsoleProjects = {"p1", "p2"}
    Calls = {"c1", "c2"}
    NothingSelected = "none"
    RevisionBound = 2
    WorkspaceLabs = {"a", "b"}
    FirstLab <- MCFirstLab
    NoLabShown = "none"
    ChangeBound = 1
    UserBound = 2
    PageSessions = {1, 2}
    PageCalls = {"c1", "c2"}
    NoSession = 0
    TokenBound = 3
    EventBound = 2
\* Requests and clicks come from outside: none may come, and bounds are reached.
CHECK_DEADLOCK FALSE
INVARIANTS
    PagesTypeOK
    
    GatewayLed
    AnalysisIsRight
    AnswerFits
    NeverStuck
    
    
    ShowsOneLab
    NothingWaits
    ChangesPass
    UserFits
