SPECIFICATION ScanSpec
CONSTANTS
    NumJobs = 3
    Sessions = {s1}
    NoJob = NoJob
    Refreshable = {}
    MoveStages = {"review", "shortlisted", "rejected"}
INVARIANTS UnlinkedPairsStayApart
CHECK_DEADLOCK FALSE
