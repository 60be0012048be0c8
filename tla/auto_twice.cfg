SPECIFICATION Spec
CONSTANTS
    j1 = j1
    j2 = j2
    Jobs = {j1}
    CompanyOf <- MCCompanyOf
    Runners = {r1}
    NoJob = NoJob
    Fit = {j1}
    Barred = {}
    Copies = {}
    Marked = {}
    Polite = {}
    Shared = {j1}
    StageAtFirst <- MCStageAtFirst
    ByHandFrom <- MCWaiting
    MaxApplications = 1
    MaxErrors = 1
    BaseTicks = 1
    SolveTicks = 2
    NoticeTicks = 3
    SpamRetries = 1
    MaxChallenges = 1
    MaxReceived = 2
INVARIANTS SubmitsOnce
CHECK_DEADLOCK FALSE
