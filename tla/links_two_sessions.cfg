SPECIFICATION ScanSpec
CONSTANTS
    NumJobs = 2
    Sessions = {s1, s2}
    NoJob = NoJob
    Refreshable = {}
    MoveStages = {"review", "shortlisted", "approved", "ready_to_apply", "needs_review", "rejected", "withdrawn"}
PROPERTIES InFlightNeverDemoted
CHECK_DEADLOCK FALSE
