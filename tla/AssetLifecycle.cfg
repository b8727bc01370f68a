SPECIFICATION LiveSpec
CONSTANTS
    Assets = {a1, a2}
    Users = {g1, g2, g3}
    Entries = {e1, e2, e3}
    None = None
INVARIANTS
    EntryWhileUsed
PROPERTIES
    ImplementsMutex
    EveryWaiterEnters
