SPECIFICATION Spec
CONSTANTS
    a1 = a1
    c1 = c1
    c2 = c2
    c3 = c3
    t1 = t1
    t2 = t2
    near = near
    None = None
    Assets = {a1}
    Conns = {c1, c2, c3}
    Tokens = {t1}
    Sources = {near}
    AssetOf <- TrioAsset
    TokenOf <- TrioToken
    SourceOf <- TrioSource
    OwnerConns = {}
    GlobalLimit = 3
    SourceLimit = 2
    Issued = {t1}
    Events = {"fault", "age"}
    MaxCrashes = 1
SYMMETRY TrioSymmetry
CHECK_DEADLOCK FALSE
INVARIANTS
    AdmissionsExact
    CleanupOnce
    HandlesOnlyWhileCurrent
    AnnouncementsFollowConnection
    PresenceFollowsConnection
