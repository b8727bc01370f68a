SPECIFICATION LiveSpec
CONSTANTS
    a1 = a1
    c1 = c1
    c2 = c2
    c3 = c3
    t1 = t1
    t2 = t2
    near = near
    None = None
    Assets = {a1}
    Conns = {c1, c2}
    Tokens = {t1, t2}
    Sources = {near}
    AssetOf <- PairAsset
    TokenOf <- PairToken
    SourceOf <- PairSource
    OwnerConns = {}
    GlobalLimit = 2
    SourceLimit = 2
    Issued = {t1}
    Events = {"revoke", "recover", "delete"}
    MaxCrashes = 0
CHECK_DEADLOCK FALSE
INVARIANT CleanupOnce
PROPERTIES
    RevokedDropped
    RemovedSocketsEnd
