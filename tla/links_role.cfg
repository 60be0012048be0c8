SPECIFICATION Spec
CONSTANTS
    NumJobs = 2
    Sessions = {s1}
    NoJob = NoJob
    Refreshable = {}
    MoveStages = {"review", "shortlisted", "approved", "ready_to_apply", "needs_review", "rejected", "withdrawn"}
PROPERTIES RoleDryRunOnce
CHECK_DEADLOCK FALSE
