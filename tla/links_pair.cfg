SPECIFICATION FairSpec
CONSTANTS
    NumJobs = 2
    Sessions = {s1}
    NoJob = NoJob
    Refreshable = {1, 2}
    MoveStages = {"review", "shortlisted", "approved", "ready_to_apply", "needs_review", "rejected", "withdrawn"}
INVARIANTS LinkNeverOutlivesPrimary
PROPERTIES OverrideIsRecorded CopiesAreReleased
CHECK_DEADLOCK FALSE
