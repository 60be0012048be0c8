SPECIFICATION Spec
CONSTANTS
    NumJobs = 3
    Sessions = {s1}
    NoJob = NoJob
    Refreshable = {}
    MoveStages = {"rejected"}
INVARIANTS LinkNeverOutlivesPrimary
CHECK_DEADLOCK FALSE
