SPECIFICATION LiveSpec
CONSTANTS
    NoJob = NoJob
    Jobs = {j1, j2}
    Workers = {w1, w2}
    Unhandled = {j2}
    AttemptLimits = {1, 2}
INVARIANTS BudgetRespected UniqueOwner DeadLetterReportedOnce DropsOnlyEndedClaims
PROPERTIES LeaseRefinement EveryJobCloses
