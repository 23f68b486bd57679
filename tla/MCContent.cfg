SPECIFICATION Spec
CONSTANTS
    Categories = {c1, c2}
    Projects = {p1, p2}
    Labs = {l1}
    Domains = {"LINUX", "NETWORKING"}
    Writers = {w1, w2}
    Payloads = {"LINUX"}
    NoKind = NoKind
    InputKeys = {"baseline", "capture", "extra"}
    BaselineKey = "baseline"
    InputWriters = {"w1", "w2"}
    Replacements = {"both", "one", "other"}
    Payload <- MCPayload
    LinkEnds <- MCLinkEnds
    Nobody = Nobody
    LabContents <- MCContents
    BundleKeys = {"source", "packet"}
    PacketKey = "packet"
    NodeKeys = {"a", "b"}
    LinkRows <- MCLinkRows
    Slugs = {"s", "s1", "s2", "s11"}
    Suffixed <- MCSuffixed
    Bundles <- MCBundles
    Importers = {"i1", "i2"}
    Seeders = {"s1", "s2"}
    LabParts <- NetworkParts
    ActsBound = 1
SYMMETRY MCSymmetry
\* Requests come from outside: none may come, and ids run out.
CHECK_DEADLOCK FALSE
INVARIANTS
    ContentTypeOK
    
    OnePrimary
    TopologyReplaced
    
    UnrivalledImportFits
    SeedConverges
