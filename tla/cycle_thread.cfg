SPECIFICATION Spec
CONSTANTS
    loop = loop
    web = web
    cli = cli
    api = api
    shell = shell
    Callers <- MCCallers
    Loops <- MCLoops
    Requests <- MCRequests
    Procs <- MCProcs
    ProcOf <- MCProcOf
    CycleIds = {i1, i2}
    MaxDryRuns = 1
    CycleMax = 1
    NoOne = NoOne
    NoProc = NoProc
    NoCycle = NoCycle
INVARIANTS SchedulerSurvives
CHECK_DEADLOCK FALSE
