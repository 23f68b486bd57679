SPECIFICATION ApartSpec
CONSTANTS
    Digests = {d1, d2}
    Ids = {a1, a2}
    Uploads = {u1, u2}
    Deletions = {r1, r2}
    Attachable = {a1}
    NoUpload = NoUpload
    NoDigest = NoDigest
    Prefixes <- MCPrefixes
    Prefix <- MCPrefix
SYMMETRY MCSymmetry
INVARIANTS
    RowsHaveBytes
PROPERTIES
    StoreSpec
