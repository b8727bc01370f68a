SPECIFICATION LiveSpec
CONSTANTS
    NoJob = NoJob
    Jobs = {j1}
    Workers = {w1}
    Unhandled = {}
    AttemptLimits = {33}
PROPERTIES EveryJobCloses
