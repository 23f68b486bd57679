SPECIFICATION Spec
CONSTANTS
    Digests = {d1}
    Ids = {a1}
    Uploads = {u1, u2}
    Deletions = {}
    Attachable = {}
    NoUpload = NoUpload
    NoDigest = NoDigest
    Prefixes <- MCPrefixes
    Prefix <- MCPrefix
PROPERTIES
    PruneSparesReferenced
