SPECIFICATION ScheduleSpec
CONSTANTS
    NoJob = NoJob
    Jobs = {1, 2}
    Horizon = 2
    Workers = {w1}
    Targets = {t1}
    Schedulers = {s1}
    Editors = {e1, e2}
    Changes = {"resume"}
INVARIANTS EditKeepsClaim
