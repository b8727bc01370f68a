SPECIFICATION ScheduleSpec
CONSTANTS
    NoJob = NoJob
    Jobs = {1, 2}
    Horizon = 2
    Workers = {w1, w2}
    Targets = {t1}
    Schedulers = {s1}
    Editors = {e1}
    Changes = {"pause", "resume", "cron"}
SYMMETRY WorkerSymmetry
INVARIANTS CommandSentOnce NoOrphanChild RunStatusTruthful UnfinishedHasJob
PROPERTIES ChildOutcomeFinal NoStartWhilePaused OccurrenceEndsWithItsJob
