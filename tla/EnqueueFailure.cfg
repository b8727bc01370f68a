SPECIFICATION ExecSpec
CONSTANTS
    NoJob = NoJob
    Jobs = {j1}
    Workers = {w1}
    Unhandled = {}
    AttemptLimits = {1}
INVARIANTS EnqueueFailureMeansNotExecuted
