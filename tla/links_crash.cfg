SPECIFICATION CrashSpec
CONSTANTS
    NumJobs = 2
    Sessions = {s1}
    NoJob = NoJob
    Refreshable = {}
    MoveStages = {"rejected"}
INVARIANTS LinkNeverOutlivesPrimary
CHECK_DEADLOCK FALSE
