SPECIFICATION Spec
CONSTANTS
    Digests = {d1, d2}
    Ids = {a1, a2, a3}
    Uploads = {u1, u2}
    Deletions = {}
    Attachable = {a1}
    NoUpload = NoUpload
    NoDigest = NoDigest
    Prefixes <- MCPrefixes
    Prefix <- MCPrefix
SYMMETRY MCSymmetry
INVARIANTS
    CopiedRowsHaveBytes
