SPECIFICATION AttendedSpec
CONSTANTS
    j1 = j1
    j2 = j2
    Jobs = {j1, j2}
    CompanyOf <- MCCompanyOf
    Runners = {r1}
    NoJob = NoJob
    Fit = {j1, j2}
    Barred = {}
    Copies = {}
    Marked = {}
    Polite = {j2}
    Shared = {j1}
    StageAtFirst <- MCStageAtFirst
    ByHandFrom <- MCWaiting
    MaxApplications = 2
    MaxErrors = 1
    BaseTicks = 1
    SolveTicks = 2
    NoticeTicks = 3
    SpamRetries = 1
    MaxChallenges = 1
    MaxReceived = 1
INVARIANTS TypeOK SubmittedWasTaken SentStaysOut RunsAreLimited
PROPERTIES RunEnds
CHECK_DEADLOCK FALSE
