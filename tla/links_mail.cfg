SPECIFICATION MailSpec
CONSTANTS
    NumJobs = 2
    Sessions = {s1}
    NoJob = NoJob
    Refreshable = {}
    MoveStages = {"review", "shortlisted"}
INVARIANTS LinkNeverOutlivesPrimary
CHECK_DEADLOCK FALSE
