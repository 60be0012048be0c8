SPECIFICATION FullSpec
CONSTANTS
    NumJobs = 3
    Sessions = {s1}
    NoJob = NoJob
    Refreshable = {}
    MoveStages = {"review", "shortlisted", "rejected"}
INVARIANTS LinksAreStars NoStrandedDuplicate
PROPERTIES OverridesLast StagesFollowMachine
CHECK_DEADLOCK FALSE
