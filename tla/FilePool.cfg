SPECIFICATION LiveSpec
CONSTANTS
    nas = nas
    b1 = b1
    b2 = b2
    x1 = x1
    None = None
    Saved = {nas}
    Browsers = {b1, b2}
    Transfers = {x1}
    ConnOf <- SharedConn
    Gates = {1}
    GateOf <- OneStripe
    MaxVersion = 2
CHECK_DEADLOCK FALSE
INVARIANTS
    NoStaleSession
    NoLeakedSession
    GenerationsTrackUse
PROPERTY EditsFinish
