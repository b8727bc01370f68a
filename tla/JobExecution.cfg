SPECIFICATION ExecLiveSpec
CONSTANTS
    NoJob = NoJob
    Jobs = {j1}
    Workers = {w1, w2}
    Unhandled = {}
    AttemptLimits = {1, 2, 3}
INVARIANTS AtMostOneEffect VerdictTruthful ClosedJobHasVerdict
PROPERTIES VerdictIsFinal QueueRefinement EveryRunSettles
